---- MODULE Spec2Model ----
(***************************************************************************)
(* A model of the dCBOR diagnostic-notation parser: the lexer generated    *)
(* from the Token enum (src/src/token.rs) and the recursive-descent parser *)
(* (src/src/parse.rs, lines 144-430), run as a state machine whose stack   *)
(* holds the activation records of the recursive parse functions.          *)
(*                                                                         *)
(* A source is a sequence of one-character strings; a byte offset p names  *)
(* the character src[p+1].  Only ASCII characters occur, so a character is *)
(* a byte and spans are byte ranges <<start, end>>.                        *)
(***************************************************************************)
EXTENDS Integers, Sequences, FiniteSets, TLC

\* ------------------------------------------------------------------------
\* Characters and character classes of the token patterns
\* ------------------------------------------------------------------------

DigitChars == <<"0", "1", "2", "3", "4", "5", "6", "7", "8", "9">>

Digit == {DigitChars[i] : i \in 1..10}

NonZeroDigit == Digit \ {"0"}

Lower == {"a", "b", "c", "d", "e", "f", "g", "h", "i", "j", "k", "l", "m",
          "n", "o", "p", "q", "r", "s", "t", "u", "v", "w", "x", "y", "z"}

Upper == {"A", "B", "C", "D", "E", "F", "G", "H", "I", "J", "K", "L", "M",
          "N", "O", "P", "Q", "R", "S", "T", "U", "V", "W", "X", "Y", "Z"}

Alpha == Lower \cup Upper

HexChars == <<"0", "1", "2", "3", "4", "5", "6", "7", "8", "9",
              "a", "b", "c", "d", "e", "f">>

HexDigit == Digit \cup {"a", "b", "c", "d", "e", "f", "A", "B", "C", "D", "E", "F"}

Base64Chars ==
    <<"A", "B", "C", "D", "E", "F", "G", "H", "I", "J", "K", "L", "M",
      "N", "O", "P", "Q", "R", "S", "T", "U", "V", "W", "X", "Y", "Z",
      "a", "b", "c", "d", "e", "f", "g", "h", "i", "j", "k", "l", "m",
      "n", "o", "p", "q", "r", "s", "t", "u", "v", "w", "x", "y", "z",
      "0", "1", "2", "3", "4", "5", "6", "7", "8", "9", "+", "/">>

Base64Char == {Base64Chars[i] : i \in 1..64} \cup {"="}

IdentStart == Alpha \cup {"_"}

IdentChar == Alpha \cup Digit \cup {"_", "-"}

UrTypeChar == Alpha \cup Digit \cup {"-"}

\* [ \t\r\n\f] of the skip pattern
Whitespace == {" ", "\t", "\r", "\n", "\f"}

\* \x00-\x1F, as far as a source of the model can hold them
ControlChar == {"\t", "\r", "\n", "\f"}

\* The character at byte offset p, "" past the end
At(src, p) == IF p >= 0 /\ p < Len(src) THEN src[p + 1] ELSE ""

\* src[a..b) as a sequence
Slice(src, a, b) == SubSeq(src, a + 1, b)

\* The end of the longest run of characters of class cls that starts at p
RunEnd(src, p, cls) ==
    IF p >= Len(src) THEN p
    ELSE CHOOSE e \in p..Len(src) :
             /\ \A i \in p..(e - 1) : At(src, i) \in cls
             /\ At(src, e) \notin cls

\* The first offset >= p that holds character c, or Len(src) when none does
FindChar(src, p, c) ==
    IF p >= Len(src) THEN p
    ELSE CHOOSE e \in p..Len(src) :
             /\ \A i \in p..(e - 1) : At(src, i) # c
             /\ e < Len(src) => At(src, e) = c

\* Whether the characters of lit stand at offset p
HasLiteral(src, p, lit) == \A i \in 1..Len(lit) : At(src, p + i - 1) = lit[i]

\* k characters of class cls at offset p
HasN(src, p, cls, k) == \A i \in 0..(k - 1) : At(src, p + i) \in cls

\* ------------------------------------------------------------------------
\* The skip pattern: (?:[ \t\r\n\f]|/[^/]*/|#[^\n]*)+
\* ------------------------------------------------------------------------

RECURSIVE SkipEnd(_, _)
SkipEnd(src, p) ==
    LET c == At(src, p) IN
    IF c \in Whitespace THEN SkipEnd(src, RunEnd(src, p, Whitespace))
    ELSE IF c = "/"
    THEN LET close == FindChar(src, p + 1, "/") IN
         IF close < Len(src) THEN SkipEnd(src, close + 1) ELSE p
    ELSE IF c = "#" THEN SkipEnd(src, FindChar(src, p + 1, "\n"))
    ELSE p

\* ------------------------------------------------------------------------
\* Decimal naturals: sequences of digits 0..9, most significant first, with
\* no leading zero (zero is <<0>>).  They carry u64 tag values, CBOR
\* integers and the digits of an f64, none of which fits a machine integer
\* of the checker.
\* ------------------------------------------------------------------------

DigitVal(c) == (CHOOSE i \in 1..10 : DigitChars[i] = c) - 1

DigitsOf(chars) == [i \in 1..Len(chars) |-> DigitVal(chars[i])]

Zeros(n) == [i \in 1..n |-> 0]

RECURSIVE StripLeadingZeros(_)
StripLeadingZeros(d) ==
    IF d = <<>> THEN <<0>>
    ELSE IF Head(d) = 0 /\ Len(d) > 1 THEN StripLeadingZeros(Tail(d))
    ELSE d

RECURSIVE StripTrailingZeros(_)
StripTrailingZeros(d) ==
    IF d = <<>> THEN <<>>
    ELSE IF d[Len(d)] = 0 THEN StripTrailingZeros(SubSeq(d, 1, Len(d) - 1))
    ELSE d

\* a <= b for decimal naturals
DecLeq(a, b) ==
    \/ Len(a) < Len(b)
    \/ /\ Len(a) = Len(b)
       /\ \/ a = b
          \/ \E i \in 1..Len(a) :
                /\ a[i] < b[i]
                /\ \A j \in 1..(i - 1) : a[j] = b[j]

\* 2^53 .. 2^66 in decimal; entry k is 2^(52 + k)
PowersOfTwo ==
    <<<<9, 0, 0, 7, 1, 9, 9, 2, 5, 4, 7, 4, 0, 9, 9, 2>>,
      <<1, 8, 0, 1, 4, 3, 9, 8, 5, 0, 9, 4, 8, 1, 9, 8, 4>>,
      <<3, 6, 0, 2, 8, 7, 9, 7, 0, 1, 8, 9, 6, 3, 9, 6, 8>>,
      <<7, 2, 0, 5, 7, 5, 9, 4, 0, 3, 7, 9, 2, 7, 9, 3, 6>>,
      <<1, 4, 4, 1, 1, 5, 1, 8, 8, 0, 7, 5, 8, 5, 5, 8, 7, 2>>,
      <<2, 8, 8, 2, 3, 0, 3, 7, 6, 1, 5, 1, 7, 1, 1, 7, 4, 4>>,
      <<5, 7, 6, 4, 6, 0, 7, 5, 2, 3, 0, 3, 4, 2, 3, 4, 8, 8>>,
      <<1, 1, 5, 2, 9, 2, 1, 5, 0, 4, 6, 0, 6, 8, 4, 6, 9, 7, 6>>,
      <<2, 3, 0, 5, 8, 4, 3, 0, 0, 9, 2, 1, 3, 6, 9, 3, 9, 5, 2>>,
      <<4, 6, 1, 1, 6, 8, 6, 0, 1, 8, 4, 2, 7, 3, 8, 7, 9, 0, 4>>,
      <<9, 2, 2, 3, 3, 7, 2, 0, 3, 6, 8, 5, 4, 7, 7, 5, 8, 0, 8>>,
      <<1, 8, 4, 4, 6, 7, 4, 4, 0, 7, 3, 7, 0, 9, 5, 5, 1, 6, 1, 6>>,
      <<3, 6, 8, 9, 3, 4, 8, 8, 1, 4, 7, 4, 1, 9, 1, 0, 3, 2, 3, 2>>,
      <<7, 3, 7, 8, 6, 9, 7, 6, 2, 9, 4, 8, 3, 8, 2, 0, 6, 4, 6, 4>>>>

\* The number of bits of d beyond the 53 of an f64's significand, for
\* d below 2^65
ExcessBits(d) ==
    IF ~DecLeq(PowersOfTwo[1], d) THEN 0
    ELSE CHOOSE k \in 1..12 :
             /\ DecLeq(PowersOfTwo[k], d)
             /\ ~DecLeq(PowersOfTwo[k + 1], d)

\* The digit of d that weighs 10^j, 0 above the leading digit
DigitAt(d, j) == IF j < Len(d) THEN d[Len(d) - j] ELSE 0

\* The four digits of d that weigh 10^(4c) .. 10^(4c+3), as a number
Chunk(d, c) ==
    DigitAt(d, 4 * c) + 10 * DigitAt(d, 4 * c + 1)
    + 100 * DigitAt(d, 4 * c + 2) + 1000 * DigitAt(d, 4 * c + 3)

\* d mod m for m a power of two up to 2^13: m divides 10^16, so the last
\* sixteen digits decide
DecMod(d, m) ==
    (((Chunk(d, 3) * (((1000000 % m) * (1000000 % m)) % m)) % m)
     + ((Chunk(d, 2) * (100000000 % m)) % m)
     + ((Chunk(d, 1) * (10000 % m)) % m)
     + Chunk(d, 0)) % m

\* d + n for a machine integer n of either sign, the sum not negative
RECURSIVE DecAddAcc(_, _)
DecAddAcc(d, n) ==
    IF n = 0 THEN d
    ELSE IF d = <<>> THEN DecAddAcc(<<0>>, n)
    ELSE DecAddAcc(SubSeq(d, 1, Len(d) - 1),
                   ((d[Len(d)] + n) - ((d[Len(d)] + n) % 10)) \div 10)
         \o <<(d[Len(d)] + n) % 10>>

DecAdd(d, n) == StripLeadingZeros(DecAddAcc(d, n))

DecInc(d) == DecAdd(d, 1)

\* Whether a number whose part below the unit is low rounds up to the next
\* multiple of the unit: past the half, or at the half with the unit's bit set
RoundsUp(low, odd, unit) == 2 * low > unit \/ (2 * low = unit /\ odd)

\* d, whose part below the unit is low, rounded to a multiple of the unit
RoundOff(d, unit, low) ==
    DecAdd(d, IF RoundsUp(low, DecMod(d, 2 * unit) >= unit, unit)
              THEN unit - low ELSE 0 - low)

\* The integer an f64 holds for the decimal integer d: d rounded to 53
\* significant bits, ties to even (str::parse::<f64> rounds correctly).
F64RoundInteger(d) ==
    IF ExcessBits(d) = 0 THEN d
    ELSE RoundOff(d, 2 ^ ExcessBits(d), DecMod(d, 2 ^ ExcessBits(d)))

\* 2^64 - 1 and 2^64
U64Max == <<1, 8, 4, 4, 6, 7, 4, 4, 0, 7, 3, 7, 0, 9, 5, 5, 1, 6, 1, 5>>

TwoTo64 == <<1, 8, 4, 4, 6, 7, 4, 4, 0, 7, 3, 7, 0, 9, 5, 5, 1, 6, 1, 6>>

\* str::parse::<u64> of a digit string matched by 0|[1-9][0-9]*
ParseU64(chars) ==
    LET d == DigitsOf(chars) IN
    IF DecLeq(d, U64Max) THEN <<"Ok", d>> ELSE <<"Err", chars>>

\* A short digit string as a machine integer (exponents, date fields)
RECURSIVE SmallNat(_)
SmallNat(chars) ==
    IF chars = <<>> THEN 0
    ELSE 10 * SmallNat(SubSeq(chars, 1, Len(chars) - 1)) + DigitVal(chars[Len(chars)])

\* ------------------------------------------------------------------------
\* f64 values: <<class, negative, integer digits, fraction digits>> with
\* class "finite", "inf" or "nan".  A finite value is held as the decimal it
\* was read from; an integer is rounded to the 53-bit significand, a
\* fraction is kept digit for digit (decimals of up to 15 significant
\* digits denote distinct f64 values).
\* ------------------------------------------------------------------------

F64NaN == <<"nan", FALSE, <<0>>, <<>>>>

F64Infinity == <<"inf", FALSE, <<0>>, <<>>>>

F64NegInfinity == <<"inf", TRUE, <<0>>, <<>>>>

\* The exponent written at offset p of a number, 0 if none is
F64Exponent(body, p) ==
    IF At(body, p) \notin {"e", "E"} THEN 0
    ELSE IF At(body, p + 1) = "-" THEN 0 - SmallNat(Slice(body, p + 2, Len(body)))
    ELSE IF At(body, p + 1) = "+" THEN SmallNat(Slice(body, p + 2, Len(body)))
    ELSE SmallNat(Slice(body, p + 1, Len(body)))

\* The digits before the decimal point when it stands after the first
\* `point` of the digits all
F64IntegerDigits(all, point) ==
    IF point <= 0 THEN <<0>>
    ELSE IF point >= Len(all) THEN all \o Zeros(point - Len(all))
    ELSE SubSeq(all, 1, point)

\* The digits after that decimal point
F64FractionDigits(all, point) ==
    IF point <= 0 THEN Zeros(0 - point) \o all
    ELSE IF point >= Len(all) THEN <<>>
    ELSE SubSeq(all, point + 1, Len(all))

\* The f64 of a sign, integer digits and fraction digits
F64OfDigits(neg, ipart, fpart) ==
    <<"finite", neg, IF fpart = <<>> THEN F64RoundInteger(ipart) ELSE ipart, fpart>>

\* The f64 of the digits all with the decimal point after the first `point`
F64OfDecimal(neg, all, point) ==
    F64OfDigits(neg, StripLeadingZeros(F64IntegerDigits(all, point)),
                StripTrailingZeros(F64FractionDigits(all, point)))

\* body is the number without its sign; its integer part ends at intEnd and
\* its fraction at fracEnd
F64OfParts(neg, body, intEnd, fracEnd) ==
    F64OfDecimal(neg,
                 DigitsOf(Slice(body, 0, intEnd))
                 \o DigitsOf(Slice(body, intEnd + 1, fracEnd)),
                 intEnd + F64Exponent(body, fracEnd))

F64OfInteger(neg, body, intEnd) ==
    F64OfParts(neg, body, intEnd,
               IF At(body, intEnd) = "." THEN RunEnd(body, intEnd + 1, Digit)
               ELSE intEnd)

F64OfBody(neg, body) == F64OfInteger(neg, body, RunEnd(body, 0, Digit))

\* lex.slice().parse::<f64>().unwrap() for a slice the Number pattern matched
ParseF64(chars) ==
    F64OfBody(chars[1] = "-", IF chars[1] = "-" THEN Tail(chars) ELSE chars)

\* ------------------------------------------------------------------------
\* Errors <<kind, argument, span>> and tokens <<kind, payload>>.  A payload
\* of a sub-decoding variant is <<"Ok", value>> or <<"Err", error>>.
\* ------------------------------------------------------------------------

NoSpan == <<>>

MkError(kind, arg, span) == <<kind, arg, span>>

ErrKind(e) == e[1]

ErrArg(e) == e[2]

ErrSpan(e) == e[3]

EmptyInput == MkError("EmptyInput", <<>>, NoSpan)

UnexpectedEndOfInput == MkError("UnexpectedEndOfInput", <<>>, NoSpan)

MkToken(kind, payload) == <<kind, payload>>

TokKind(t) == t[1]

TokPayload(t) == t[2]

\* The #[token] literals with the tokens they yield
LiteralTokens ==
    << <<<<"f", "a", "l", "s", "e">>, MkToken("Bool", FALSE)>>,
       <<<<"t", "r", "u", "e">>, MkToken("Bool", TRUE)>>,
       <<<<"{">>, MkToken("BraceOpen", <<>>)>>,
       <<<<"}">>, MkToken("BraceClose", <<>>)>>,
       <<<<"[">>, MkToken("BracketOpen", <<>>)>>,
       <<<<"]">>, MkToken("BracketClose", <<>>)>>,
       <<<<"(">>, MkToken("ParenthesisOpen", <<>>)>>,
       <<<<")">>, MkToken("ParenthesisClose", <<>>)>>,
       <<<<":">>, MkToken("Colon", <<>>)>>,
       <<<<",">>, MkToken("Comma", <<>>)>>,
       <<<<"n", "u", "l", "l">>, MkToken("Null", <<>>)>>,
       <<<<"N", "a", "N">>, MkToken("NaN", <<>>)>>,
       <<<<"I", "n", "f", "i", "n", "i", "t", "y">>, MkToken("Infinity", <<>>)>>,
       <<<<"-", "I", "n", "f", "i", "n", "i", "t", "y">>, MkToken("NegInfinity", <<>>)>>,
       <<<<"U", "n", "i", "t">>, MkToken("Unit", <<>>)>> >>

\* Each XEnd(src, p) is the end offset of the longest match of pattern X at
\* offset p, or -1 when X does not match there.

LiteralEnd(src, p, lit) == IF HasLiteral(src, p, lit) THEN p + Len(lit) ELSE -1

\* h'[0-9a-fA-F]*'
\* The offset after the quote expected at offset e, or -1
QuoteEnd(src, e) == IF At(src, e) = "'" THEN e + 1 ELSE -1

ByteStringHexEnd(src, p) ==
    IF HasLiteral(src, p, <<"h", "'">>)
    THEN QuoteEnd(src, RunEnd(src, p + 2, HexDigit))
    ELSE -1

\* b64'([A-Za-z0-9+/=]{2,})'
\* The offset after a run of at least k characters from offset p to e and
\* the quote that closes it, or -1
QuotedRunEnd(src, p, e, k) == IF e - p >= k THEN QuoteEnd(src, e) ELSE -1

ByteStringBase64End(src, p) ==
    IF HasLiteral(src, p, <<"b", "6", "4", "'">>)
    THEN QuotedRunEnd(src, p + 4, RunEnd(src, p + 4, Base64Char), 2)
    ELSE -1

\* (?:\.\d+)? at offset p
FractionEnd(src, p) ==
    IF At(src, p) = "." /\ At(src, p + 1) \in Digit
    THEN RunEnd(src, p + 1, Digit)
    ELSE p

\* (?:Z|[+-]\d{2}:\d{2})? at offset p
DateZoneEnd(src, p) ==
    IF At(src, p) = "Z" THEN p + 1
    ELSE IF /\ At(src, p) \in {"+", "-"}
            /\ HasN(src, p + 1, Digit, 2)
            /\ At(src, p + 3) = ":"
            /\ HasN(src, p + 4, Digit, 2)
    THEN p + 6
    ELSE p

\* (?:T\d{2}:\d{2}:\d{2}(?:\.\d+)?(?:Z|[+-]\d{2}:\d{2})?)? at offset p
DateTimeEnd(src, p) ==
    IF /\ At(src, p) = "T"
       /\ HasN(src, p + 1, Digit, 2)
       /\ At(src, p + 3) = ":"
       /\ HasN(src, p + 4, Digit, 2)
       /\ At(src, p + 6) = ":"
       /\ HasN(src, p + 7, Digit, 2)
    THEN DateZoneEnd(src, FractionEnd(src, p + 9))
    ELSE p

\* \d{4}-\d{2}-\d{2}(?:T...)?
DateLiteralEnd(src, p) ==
    IF /\ HasN(src, p, Digit, 4)
       /\ At(src, p + 4) = "-"
       /\ HasN(src, p + 5, Digit, 2)
       /\ At(src, p + 7) = "-"
       /\ HasN(src, p + 8, Digit, 2)
    THEN DateTimeEnd(src, p + 10)
    ELSE -1

\* 0|[1-9][0-9]* at offset p, or -1
DecimalEnd(src, p) ==
    IF At(src, p) = "0" THEN p + 1
    ELSE IF At(src, p) \in NonZeroDigit THEN RunEnd(src, p + 1, Digit)
    ELSE -1

\* \d+ at offset p, or the offset back that the optional group falls back to
DigitsEndOr(src, p, back) ==
    IF At(src, p) \in Digit THEN RunEnd(src, p, Digit) ELSE back

\* (?:[eE][+-]?\d+)? at offset p
ExponentEnd(src, p) ==
    IF At(src, p) \notin {"e", "E"} THEN p
    ELSE IF At(src, p + 1) \in {"+", "-"} THEN DigitsEndOr(src, p + 2, p)
    ELSE DigitsEndOr(src, p + 1, p)

\* (?:\.\d+)?(?:[eE][+-]?\d+)? after an integer part that ends at offset e
NumberTailEnd(src, e) ==
    IF e = -1 THEN -1 ELSE ExponentEnd(src, FractionEnd(src, e))

\* -?(?:0|[1-9]\d*)(?:\.\d+)?(?:[eE][+-]?\d+)?
NumberEnd(src, p) ==
    NumberTailEnd(src, DecimalEnd(src, IF At(src, p) = "-" THEN p + 1 ELSE p))

\* ([^"\\\x00-\x1F]|\\(["\\bnfrt/]|u[a-fA-F0-9]{4}))*" at offset p
RECURSIVE StringBodyEnd(_, _)
StringBodyEnd(src, p) ==
    IF At(src, p) = "" \/ At(src, p) \in ControlChar THEN -1
    ELSE IF At(src, p) = "\"" THEN p + 1
    ELSE IF At(src, p) = "\\"
    THEN IF At(src, p + 1) \in {"\"", "\\", "b", "n", "f", "r", "t", "/"}
         THEN StringBodyEnd(src, p + 2)
         ELSE IF At(src, p + 1) = "u" /\ HasN(src, p + 2, HexDigit, 4)
         THEN StringBodyEnd(src, p + 6)
         ELSE -1
    ELSE StringBodyEnd(src, p + 1)

StringEnd(src, p) == IF At(src, p) = "\"" THEN StringBodyEnd(src, p + 1) ELSE -1

\* The offset after the character c expected at offset e, or -1; e is -1
\* when what comes before c did not match
ClosedEnd(src, e, c) == IF e # -1 /\ At(src, e) = c THEN e + 1 ELSE -1

\* 0\(|[1-9][0-9]*\(
TagValueEnd(src, p) == ClosedEnd(src, DecimalEnd(src, p), "(")

\* [a-zA-Z_][a-zA-Z0-9_-]* at offset p, or -1
IdentEnd(src, p) ==
    IF At(src, p) \in IdentStart THEN RunEnd(src, p + 1, IdentChar) ELSE -1

\* [a-zA-Z_][a-zA-Z0-9_-]*\(
TagNameEnd(src, p) == ClosedEnd(src, IdentEnd(src, p), "(")

\* '0'|'[1-9][0-9]*'
KnownValueNumberEnd(src, p) ==
    IF At(src, p) = "'" THEN ClosedEnd(src, DecimalEnd(src, p + 1), "'") ELSE -1

\* ''|'[a-zA-Z_][a-zA-Z0-9_-]*'
KnownValueNameEnd(src, p) ==
    IF At(src, p) # "'" THEN -1
    ELSE IF At(src, p + 1) = "'" THEN p + 2
    ELSE ClosedEnd(src, IdentEnd(src, p + 1), "'")

\* The end of the UR type in ur:<type>/<body>, or -1
UrTypeEnd(src, p) ==
    IF HasLiteral(src, p, <<"u", "r", ":">>) /\ At(src, p + 3) \in (Alpha \cup Digit)
    THEN RunEnd(src, p + 4, UrTypeChar)
    ELSE -1

\* ur:([a-zA-Z0-9][a-zA-Z0-9-]*)/([a-zA-Z]{8,})
\* /([a-zA-Z]{8,}) at offset t, where the UR type ends
UrBodyEnd(src, t) ==
    IF t # -1 /\ At(src, t) = "/" /\ HasN(src, t + 1, Alpha, 8)
    THEN RunEnd(src, t + 1, Alpha)
    ELSE -1

UREnd(src, p) == UrBodyEnd(src, UrTypeEnd(src, p))

\* ------------------------------------------------------------------------
\* The sub-decoders the token callbacks run
\* ------------------------------------------------------------------------

HexVal(c) ==
    IF c \in Digit THEN DigitVal(c)
    ELSE CASE c \in {"a", "A"} -> 10
           [] c \in {"b", "B"} -> 11
           [] c \in {"c", "C"} -> 12
           [] c \in {"d", "D"} -> 13
           [] c \in {"e", "E"} -> 14
           [] c \in {"f", "F"} -> 15

\* hex::decode of an even number of hex digits
HexDecode(chars) ==
    [i \in 1..(Len(chars) \div 2) |->
        16 * HexVal(chars[2 * i - 1]) + HexVal(chars[2 * i])]

Base64Val(c) == (CHOOSE i \in 1..64 : Base64Chars[i] = c) - 1

\* Byte j of the bytes the base64 symbols of body carry
Base64Byte(body, j, g, k) ==
    CASE k = 0 -> Base64Val(body[g + 1]) * 4 + Base64Val(body[g + 2]) \div 16
      [] k = 1 -> (Base64Val(body[g + 2]) % 16) * 16 + Base64Val(body[g + 3]) \div 4
      [] k = 2 -> (Base64Val(body[g + 3]) % 4) * 64 + Base64Val(body[g + 4])

Base64Bytes(body) ==
    [j \in 1..((Len(body) * 6) \div 8) |->
        Base64Byte(body, j, 4 * ((j - 1) \div 3), (j - 1) % 3)]

\* Whether the symbols before the padding, pad characters of it following,
\* are a canonical encoding: whole quads, and no bit set that no byte holds
Base64Canonical(body, pad) ==
    /\ (Len(body) + pad) % 4 = 0
    /\ pad <= 2
    /\ Len(body) > 0
    /\ Len(body) % 4 = 2 => Base64Val(body[Len(body)]) % 16 = 0
    /\ Len(body) % 4 = 3 => Base64Val(body[Len(body)]) % 4 = 0

\* chars with its padding starting after the first padStart characters
Base64DecodePadded(chars, padStart) ==
    IF /\ \A i \in (padStart + 1)..Len(chars) : chars[i] = "="
       /\ Base64Canonical(SubSeq(chars, 1, padStart), Len(chars) - padStart)
    THEN <<"Ok", Base64Bytes(SubSeq(chars, 1, padStart))>>
    ELSE <<"Err", <<>>>>

\* base64 STANDARD decode: canonical padding is required and the unused
\* bits of the last symbol must be zero.
Base64Decode(chars) == Base64DecodePadded(chars, FindChar(chars, 0, "="))

DaysInMonth(y, m) ==
    IF m \in {4, 6, 9, 11} THEN 30
    ELSE IF m = 2
    THEN (IF y % 4 = 0 /\ (y % 100 # 0 \/ y % 400 = 0) THEN 29 ELSE 28)
    ELSE 31

\* Whether y-m-d is a date of the calendar
DateOk(y, m, d) == m \in 1..12 /\ d >= 1 /\ d <= DaysInMonth(y, m)

\* Whether the time of day that follows the date in chars is one and ends
\* with its zone
TimeOk(chars) ==
    /\ SmallNat(SubSeq(chars, 12, 13)) <= 23
    /\ SmallNat(SubSeq(chars, 15, 16)) <= 59
    /\ SmallNat(SubSeq(chars, 18, 19)) <= 59
    /\ \/ DateZoneEnd(chars, Len(chars) - 1) = Len(chars)
       \/ DateZoneEnd(chars, Len(chars) - 6) = Len(chars)

\* Whether Date::from_string accepts a slice the DateLiteral pattern matched:
\* a calendar date, alone or followed by a time of day with its zone.
DateFromStringOk(chars) ==
    /\ DateOk(SmallNat(SubSeq(chars, 1, 4)), SmallNat(SubSeq(chars, 6, 7)),
              SmallNat(SubSeq(chars, 9, 10)))
    /\ Len(chars) > 10 => TimeOk(chars)

\* The Bytewords bodies UR::from_ur_string is known to decode, each with the
\* CBOR it carries (the date 2025-05-15 of test_ur); any other body fails
\* the checksum.
KnownUrBodies ==
    << << <<"c", "y", "i", "s", "d", "a", "d", "m", "l", "a", "s", "g", "t", "a",
            "p", "t", "t", "l">>,
          <<"int", <<FALSE, <<1, 7, 4, 7, 2, 6, 7, 2, 0, 0>>>>>> >> >>

\* UR::from_ur_string: <<"Ok", <<type, cbor>>>> or <<"Err", <<>>>>
URFromUrString(type, body) ==
    IF \E i \in 1..Len(KnownUrBodies) : KnownUrBodies[i][1] = body
    THEN <<"Ok", <<type,
                   KnownUrBodies[CHOOSE i \in 1..Len(KnownUrBodies) :
                                     KnownUrBodies[i][1] = body][2]>>>>
    ELSE <<"Err", <<>>>>

\* ------------------------------------------------------------------------
\* The token callbacks: the token a pattern yields for the slice src[s..e)
\* ------------------------------------------------------------------------

\* A sub-decoding Result as a token's payload: the value decoded, or the
\* error of the variant
Decoded(kind, r, error) ==
    IF r[1] = "Ok" THEN MkToken(kind, r) ELSE MkToken(kind, <<"Err", error>>)

HexDecodeEven(raw) ==
    IF Len(raw) % 2 # 0 THEN <<"Err", <<>>>> ELSE <<"Ok", HexDecode(raw)>>

ByteStringHexToken(src, s, e) ==
    Decoded("ByteStringHex", HexDecodeEven(Slice(src, s + 2, e - 1)),
            MkError("InvalidHexString", <<>>, <<s, e>>))

ByteStringBase64Token(src, s, e) ==
    Decoded("ByteStringBase64", Base64Decode(Slice(src, s + 4, e - 1)),
            MkError("InvalidBase64String", <<>>, <<s, e>>))

DateFromString(str) == IF DateFromStringOk(str) THEN <<"Ok", str>> ELSE <<"Err", <<>>>>

DateLiteralToken(src, s, e) ==
    Decoded("DateLiteral", DateFromString(Slice(src, s, e)),
            MkError("InvalidDateString", Slice(src, s, e), <<s, e>>))

NumberToken(src, s, e) == MkToken("Number", ParseF64(Slice(src, s, e)))

StringToken(src, s, e) == MkToken("String", Slice(src, s, e))

TagValueToken(src, s, e) ==
    Decoded("TagValue", ParseU64(Slice(src, s, e - 1)),
            MkError("InvalidTagValue", Slice(src, s, e - 1), <<s, e - 1>>))

TagNameToken(src, s, e) == MkToken("TagName", Slice(src, s, e - 1))

KnownValueNumberToken(src, s, e) ==
    Decoded("KnownValueNumber", ParseU64(Slice(src, s + 1, e - 1)),
            MkError("InvalidKnownValue", Slice(src, s + 1, e - 1), <<s + 1, e - 1>>))

KnownValueNameToken(src, s, e) == MkToken("KnownValueName", Slice(src, s + 1, e - 1))

\* The UR whose type ends at offset t of the slice src[s..e)
URFromSlice(src, s, t, e) == URFromUrString(Slice(src, s + 3, t), Slice(src, t + 1, e))

URToken(src, s, e) ==
    Decoded("UR", URFromSlice(src, s, UrTypeEnd(src, s), e),
            MkError("InvalidUr", <<>>, <<s, e>>))

\* ------------------------------------------------------------------------
\* The lexer: Lexer::next from byte offset pos (the end of the last token)
\* ------------------------------------------------------------------------

NumLiterals == Len(LiteralTokens)

\* The end of every pattern's match at offset s, literals first
PatternEnds(src, s) ==
    [i \in 1..NumLiterals |-> LiteralEnd(src, s, LiteralTokens[i][1])]
    \o << ByteStringHexEnd(src, s), ByteStringBase64End(src, s),
          DateLiteralEnd(src, s), NumberEnd(src, s), StringEnd(src, s),
          TagValueEnd(src, s), TagNameEnd(src, s), KnownValueNumberEnd(src, s),
          KnownValueNameEnd(src, s), UREnd(src, s) >>

\* The token of pattern i for the slice src[s..e)
PatternToken(src, i, s, e) ==
    IF i <= NumLiterals THEN LiteralTokens[i][2]
    ELSE CASE i = NumLiterals + 1 -> ByteStringHexToken(src, s, e)
           [] i = NumLiterals + 2 -> ByteStringBase64Token(src, s, e)
           [] i = NumLiterals + 3 -> DateLiteralToken(src, s, e)
           [] i = NumLiterals + 4 -> NumberToken(src, s, e)
           [] i = NumLiterals + 5 -> StringToken(src, s, e)
           [] i = NumLiterals + 6 -> TagValueToken(src, s, e)
           [] i = NumLiterals + 7 -> TagNameToken(src, s, e)
           [] i = NumLiterals + 8 -> KnownValueNumberToken(src, s, e)
           [] i = NumLiterals + 9 -> KnownValueNameToken(src, s, e)
           [] i = NumLiterals + 10 -> URToken(src, s, e)

\* A skip pattern of whitespace alone
SkipWhitespace(src, pos) == RunEnd(src, pos, Whitespace)

\* A skip pattern without the end-of-line comments: (?:[ \t\r\n\f]|/[^/]*/)+
RECURSIVE SkipInlineOnly(_, _)
SkipInlineOnly(src, p) ==
    IF At(src, p) \in Whitespace THEN SkipInlineOnly(src, RunEnd(src, p, Whitespace))
    ELSE IF At(src, p) = "/" /\ FindChar(src, p + 1, "/") < Len(src)
    THEN SkipInlineOnly(src, FindChar(src, p + 1, "/") + 1)
    ELSE p

\* Where the lexer starts to match after trivia
SkipTrivia(src, pos) == SkipEnd(src, pos)

\* The end of the longest of the matches that end at ends
LongestEnd(ends) ==
    CHOOSE e \in {ends[i] : i \in 1..Len(ends)} : \A i \in 1..Len(ends) : ends[i] <= e

\* The first of the patterns whose match ends at e
FirstPattern(ends, e) ==
    CHOOSE i \in 1..Len(ends) : ends[i] = e /\ \A j \in 1..(i - 1) : ends[j] # e

\* The longest match at offset s wins, the first pattern among equals; an
\* unrecognized region is reported one character at a time
LongestMatch(src, s, ends, best) ==
    IF best = -1 THEN <<"err", <<>>, <<s, s + 1>>>>
    ELSE <<"tok", PatternToken(src, FirstPattern(ends, best), s, best), <<s, best>>>>

\* What the lexer finds at offset s, where no trivia stands
TokenAt(src, s, ends) ==
    IF s >= Len(src) THEN <<"eof", <<>>, <<Len(src), Len(src)>>>>
    ELSE LongestMatch(src, s, ends, LongestEnd(ends))

\* Lexer::next: <<"eof", <<>>, span>>, <<"tok", token, span>> or
\* <<"err", <<>>, span>>
NextTokenFrom(src, s) == TokenAt(src, s, PatternEnds(src, s))

NextToken(src, pos) == NextTokenFrom(src, SkipTrivia(src, pos))

\* ------------------------------------------------------------------------
\* CBOR values <<kind, payload>>, as the dcbor constructors build them.  A
\* number is canonical from its construction on: an f64 that holds an integer
\* of the CBOR range -2^64 .. 2^64-1 becomes that integer.
\* ------------------------------------------------------------------------

Chars(str) == [i \in 1..Len(str) |-> SubSeq(str, i, i)]

CborBool(b) == <<"bool", b>>

CborNull == <<"null", <<>>>>

CborByteString(bytes) == <<"bytes", bytes>>

CborText(chars) == <<"text", chars>>

CborInt(neg, digits) == <<"int", <<neg, digits>>>>

CborArray(items) == <<"array", items>>

\* A map is the set of its <<key, value>> entries
CborMap(entries) == <<"map", entries>>

CborTagged(tag, item) == <<"tagged", <<tag, item>>>>

\* CBOR::from(f64)
CborFromF64(f) ==
    IF /\ f[1] = "finite"
       /\ f[4] = <<>>
       /\ DecLeq(f[3], IF f[2] THEN TwoTo64 ELSE U64Max)
    THEN CborInt(f[2] /\ f[3] # <<0>>, f[3])
    ELSE <<"float", f>>

\* The tag of a known value
KnownValueTag == <<4, 0, 0, 0, 0>>

\* KnownValue::new(n).into()
KnownValueCbor(n) == CborTagged(KnownValueTag, CborInt(FALSE, n))

\* map.insert(key, value) that keeps the value a key already has
MapInsertFirstWins(entries, key, value) ==
    IF \E e \in entries : e[1] = key THEN entries ELSE entries \cup {<<key, value>>}

\* An insert that adds the entry beside an older one of the same key
MapInsertKeepBoth(entries, key, value) == entries \cup {<<key, value>>}

\* Map::insert: the entry of an equal key is replaced, so the later value
\* wins and the map keeps one entry per key
MapInsert(entries, key, value) ==
    {p \in entries : p[1] # key} \cup {<<key, value>>}

MapKeys(entries) == {p[1] : p \in entries}

\* ------------------------------------------------------------------------
\* The registries, as sets of <<name, number>>
\* ------------------------------------------------------------------------

\* What dcbor::register_tags() registers, as far as the parser's tests use it
RegisteredTags == {<<Chars("date"), <<1>>>>}

\* The known-value registry's entries the parser's tests name; the unit
\* value 0 is registered under the empty name
RegisteredKnownValues == {<<Chars(""), <<0>>>>, <<Chars("isA"), <<1>>>>}

\* tag_for_name / known_value_for_name: <<"Some", number>> or <<"None", <<>>>>
Lookup(registry, name) ==
    IF \E p \in registry : p[1] = name
    THEN <<"Some", (CHOOSE p \in registry : p[1] = name)[2]>>
    ELSE <<"None", <<>>>>

\* ------------------------------------------------------------------------
\* Results and the activation records of the parse functions
\* ------------------------------------------------------------------------

Ok(v) == <<"Ok", v>>

Err(e) == <<"Err", e>>

None == <<"None", <<>>>>

IsOk(r) == r[1] = "Ok"

IsErr(r) == r[1] = "Err"

NoValue == <<"none", <<>>>>

\* fn: the function; at: where in its body it stands
Frame(fn, at) ==
    [fn |-> fn, at |-> at, items |-> <<>>, map |-> {},
     awaits_comma |-> FALSE, awaits_item |-> FALSE, awaits_key |-> FALSE,
     key |-> NoValue, tag |-> <<>>, name |-> <<>>, span |-> <<>>]

ItemFrame == Frame("parse_item", "start")

ArrayFrame == Frame("parse_array", "loop")

MapFrame == Frame("parse_map", "loop")

\* parse_number_tag and parse_name_tag start by calling parse_item
NumberTagFrames(tag) ==
    <<[Frame("parse_number_tag", "item") EXCEPT !.tag = tag], ItemFrame>>

NameTagFrames(name, tokenSpan) ==
    <<[Frame("parse_name_tag", "item") EXCEPT
          !.name = name, !.span = <<tokenSpan[1], tokenSpan[2] - 1>>],
      ItemFrame>>

Returns(r) == <<"ret", r>>

Invokes(frames) == <<"call", frames>>

\* ------------------------------------------------------------------------
\* The parse functions that return without reading a token
\* ------------------------------------------------------------------------

\* A parse_string that drops the backslashes of the escape sequences
ParseStringUnescaped(s, span) ==
    IF Len(s) >= 1 /\ s[1] = "\"" /\ s[Len(s)] = "\""
    THEN Ok(CborText(SelectSeq(SubSeq(s, 2, Len(s) - 1), LAMBDA c : c # "\\")))
    ELSE Err(MkError("UnrecognizedToken", <<>>, span))

ParseString(s, span) ==
    IF Len(s) >= 1 /\ s[1] = "\"" /\ s[Len(s)] = "\""
    THEN Ok(CborText(SubSeq(s, 2, Len(s) - 1)))
    ELSE Err(MkError("UnrecognizedToken", <<>>, span))

\* A parse_ur that reports an unknown type with the span of the whole token
ParseUrTokenSpan(ur, span, tagStore) ==
    LET found == Lookup(tagStore, ur[1]) IN
    IF found[1] = "Some" THEN Ok(CborTagged(found[2], ur[2]))
    ELSE Err(MkError("UnknownUrType", ur[1], span))

\* A parse_ur that counts the bytes of the type from the end of the token
ParseUrPastEnd(ur, span, tagStore) ==
    LET found == Lookup(tagStore, ur[1]) IN
    IF found[1] = "Some" THEN Ok(CborTagged(found[2], ur[2]))
    ELSE Err(MkError("UnknownUrType", ur[1], <<span[2], span[2] + Len(ur[1])>>))

ParseUr(ur, span, tagStore) ==
    LET found == Lookup(tagStore, ur[1]) IN
    IF found[1] = "Some" THEN Ok(CborTagged(found[2], ur[2]))
    ELSE Err(MkError("UnknownUrType", ur[1],
                     <<span[1] + 3, span[1] + 3 + Len(ur[1])>>))

\* The variants whose payload is a Result that parse_item_token looks into
EmbeddedErrorKinds ==
    {"ByteStringHex", "ByteStringBase64", "TagValue", "UR", "KnownValueNumber"}

\* The tokens that carry a sub-decoding Result at all
ResultKinds == EmbeddedErrorKinds \cup {"DateLiteral"}

HasErrPayload(token) ==
    TokKind(token) \in ResultKinds /\ TokPayload(token)[1] = "Err"

HasOkPayload(token) ==
    TokKind(token) \in ResultKinds /\ TokPayload(token)[1] = "Ok"

\* parse_item_token: what it returns at once, or the functions it calls.
\* span is lexer.span(), the token's own span.
ParseItemToken(token, span, tagStore, kvStore) ==
    LET k == TokKind(token)
        pl == TokPayload(token)
    IN
    IF k \in EmbeddedErrorKinds /\ pl[1] = "Err" THEN Returns(Err(pl[2]))
    ELSE CASE k = "Bool" -> Returns(Ok(CborBool(pl)))
           [] k = "Null" -> Returns(Ok(CborNull))
           [] k = "ByteStringHex" -> Returns(Ok(CborByteString(pl[2])))
           [] k = "ByteStringBase64" -> Returns(Ok(CborByteString(pl[2])))
           [] k = "Number" -> Returns(Ok(CborFromF64(pl)))
           [] k = "NaN" -> Returns(Ok(CborFromF64(F64NaN)))
           [] k = "Infinity" -> Returns(Ok(CborFromF64(F64Infinity)))
           [] k = "NegInfinity" -> Returns(Ok(CborFromF64(F64NegInfinity)))
           [] k = "String" -> Returns(ParseString(pl, span))
           [] k = "UR" -> Returns(ParseUr(pl[2], span, tagStore))
           [] k = "TagValue" -> Invokes(NumberTagFrames(pl[2]))
           [] k = "TagName" -> Invokes(NameTagFrames(pl, span))
           [] k = "KnownValueNumber" -> Returns(Ok(KnownValueCbor(pl[2])))
           [] k = "KnownValueName" ->
                LET found == Lookup(kvStore, pl) IN
                IF found[1] = "Some" THEN Returns(Ok(KnownValueCbor(found[2])))
                ELSE Returns(Err(MkError("UnknownKnownValueName", pl,
                                         <<span[1] + 1, span[2] - 1>>)))
           [] k = "Unit" -> Returns(Ok(KnownValueCbor(<<0>>)))
           [] k = "BracketOpen" -> Invokes(<<ArrayFrame>>)
           [] k = "BraceOpen" -> Invokes(<<MapFrame>>)
           [] OTHER -> Returns(Err(MkError("UnexpectedToken", token, span)))

\* The item arms of parse_array's match, the guards aside: what the arm
\* pushes, the functions it calls, or <<"none", <<>>>> for a token that has
\* no item arm.
ParseArrayItemArm(token, span, tagStore, kvStore) ==
    LET k == TokKind(token)
        pl == TokPayload(token)
    IN
    CASE k = "Bool" -> Returns(Ok(CborBool(pl)))
      [] k = "Null" -> Returns(Ok(CborNull))
      [] k = "ByteStringHex" /\ pl[1] = "Ok" -> Returns(Ok(CborByteString(pl[2])))
      [] k = "ByteStringBase64" /\ pl[1] = "Ok" -> Returns(Ok(CborByteString(pl[2])))
      [] k = "Number" -> Returns(Ok(CborFromF64(pl)))
      [] k = "NaN" -> Returns(Ok(CborFromF64(F64NaN)))
      [] k = "Infinity" -> Returns(Ok(CborFromF64(F64Infinity)))
      [] k = "NegInfinity" -> Returns(Ok(CborFromF64(F64NegInfinity)))
      [] k = "String" -> Returns(ParseString(pl, span))
      [] k = "UR" /\ pl[1] = "Ok" -> Returns(ParseUr(pl[2], span, tagStore))
      [] k = "TagValue" /\ pl[1] = "Ok" -> Invokes(NumberTagFrames(pl[2]))
      [] k = "TagName" -> Invokes(NameTagFrames(pl, span))
      [] k = "KnownValueNumber" /\ pl[1] = "Ok" -> Returns(Ok(KnownValueCbor(pl[2])))
      [] k = "KnownValueName" ->
           LET found == Lookup(kvStore, pl) IN
           IF found[1] = "Some" THEN Returns(Ok(KnownValueCbor(found[2])))
           ELSE Returns(Err(MkError("UnknownKnownValueName", pl, span)))
      [] k = "BracketOpen" -> Invokes(<<ArrayFrame>>)
      [] k = "BraceOpen" -> Invokes(<<MapFrame>>)
      [] OTHER -> <<"none", <<>>>>

\* expect_token with the lexer's span at prevSpan: <<result, lexer.span()
\* afterwards>>.  An unrecognized token is reported with the span read
\* before the lexer advanced.
Expected(nt, prevSpan) ==
    CASE nt[1] = "tok" -> <<Ok(nt[2]), nt[3]>>
      [] nt[1] = "err" -> <<Err(MkError("UnrecognizedToken", <<>>, prevSpan)), nt[3]>>
      [] nt[1] = "eof" -> <<Err(UnexpectedEndOfInput), nt[3]>>

\* An expect_token that hands out a comma and leaves it in the lexer
ExpectTokenCommaKept(source, prevSpan) ==
    IF /\ NextToken(source, prevSpan[2])[1] = "tok"
       /\ TokKind(NextToken(source, prevSpan[2])[2]) = "Comma"
    THEN <<Ok(NextToken(source, prevSpan[2])[2]), prevSpan>>
    ELSE Expected(NextToken(source, prevSpan[2]), prevSpan)

ExpectToken(source, prevSpan) == Expected(NextToken(source, prevSpan[2]), prevSpan)

\* ------------------------------------------------------------------------
\* The bodies of the parse functions, one stretch of code at a time.  Each
\* yields the configuration the stretch ends in: the stack of activation
\* records (the innermost last), the value being returned, the position
\* ("run": the innermost function reads a token next; "return": its callee
\* has returned r), and lexer.span().
\* ------------------------------------------------------------------------

Config(stk, r, p, sp) == [stack |-> stk, ret |-> r, pc |-> p, span |-> sp]

Top(stk) == stk[Len(stk)]

Pop(stk) == SubSeq(stk, 1, Len(stk) - 1)

\* The innermost function returns r to its caller
Return(stk, r, sp) == Config(Pop(stk), r, "return", sp)

\* The innermost function goes on as frame
Continue(stk, frame, sp) == Config(Pop(stk) \o <<frame>>, None, "run", sp)

\* The innermost function, standing as frame, calls the functions of frames
Call(stk, frame, frames, sp) ==
    Config(Pop(stk) \o <<frame>> \o frames, None, "run", sp)

\* parse_item_token has returned o, or calls the functions o names, in
\* place of the innermost function
ParseItemOutcome(stk, o, sp) ==
    IF o[1] = "call" THEN Config(Pop(stk) \o o[2], None, "run", sp)
    ELSE Return(stk, o[2], sp)

\* parse_item after expect_token has returned et
ParseItemExpected(stk, et, tagStore, kvStore) ==
    IF IsErr(et[1]) THEN Return(stk, et[1], et[2])
    ELSE ParseItemOutcome(stk, ParseItemToken(et[1][2], et[2], tagStore, kvStore),
                          et[2])

\* parse_item: the result of parse_item_token is its own result
ParseItemBody(source, stk, sp, tagStore, kvStore) ==
    ParseItemExpected(stk, ExpectToken(source, sp), tagStore, kvStore)

\* An item arm that pushes the item and leaves awaits_comma as it was
ArrayPushNoComma(frame, item) ==
    [frame EXCEPT !.items = Append(@, item), !.at = "loop", !.awaits_item = FALSE]

\* The end of an item arm of parse_array: the item is pushed
ArrayPush(frame, item) ==
    [frame EXCEPT !.items = Append(@, item), !.at = "loop",
                  !.awaits_item = FALSE, !.awaits_comma = TRUE]

\* parse_array: the item arm the token has ends as arm says
ParseArrayArm(stk, frame, arm, sp) ==
    IF arm[1] = "call"
    THEN Call(stk, [frame EXCEPT !.at = "item"], arm[2], sp)
    ELSE IF IsOk(arm[2])
    THEN Continue(stk, ArrayPush(frame, arm[2][2]), sp)
    ELSE Return(stk, arm[2], sp)

\* A match whose BracketClose arm has no guard: the array may close after a
\* comma
ParseArrayMatchTrailing(stk, frame, token, arm, sp) ==
    IF arm[1] # "none" /\ ~frame.awaits_comma
    THEN ParseArrayArm(stk, frame, arm, sp)
    ELSE IF TokKind(token) = "Comma" /\ frame.awaits_comma
    THEN Continue(stk, [frame EXCEPT !.awaits_item = TRUE,
                                     !.awaits_comma = FALSE], sp)
    ELSE IF TokKind(token) = "BracketClose"
    THEN Return(stk, Ok(CborArray(frame.items)), sp)
    ELSE IF frame.awaits_comma
    THEN Return(stk, Err(MkError("ExpectedComma", <<>>, sp)), sp)
    ELSE Return(stk, Err(MkError("UnexpectedToken", token, sp)), sp)

\* parse_array: the match on the token read; arm is the item arm the token
\* has, its guard aside
ParseArrayMatch(stk, frame, token, arm, sp) ==
    IF arm[1] # "none" /\ ~frame.awaits_comma
    THEN ParseArrayArm(stk, frame, arm, sp)
    ELSE IF TokKind(token) = "Comma" /\ frame.awaits_comma
    THEN Continue(stk, [frame EXCEPT !.awaits_item = TRUE,
                                     !.awaits_comma = FALSE], sp)
    ELSE IF TokKind(token) = "BracketClose" /\ ~frame.awaits_item
    THEN Return(stk, Ok(CborArray(frame.items)), sp)
    ELSE IF frame.awaits_comma
    THEN Return(stk, Err(MkError("ExpectedComma", <<>>, sp)), sp)
    ELSE Return(stk, Err(MkError("UnexpectedToken", token, sp)), sp)

\* parse_array after expect_token has returned et
ParseArrayExpected(stk, et, tagStore, kvStore) ==
    IF IsErr(et[1]) THEN Return(stk, et[1], et[2])
    ELSE ParseArrayMatch(stk, Top(stk), et[1][2],
                         ParseArrayItemArm(et[1][2], et[2], tagStore, kvStore),
                         et[2])

\* parse_array: one turn of the loop
ParseArrayLoop(source, stk, sp, tagStore, kvStore) ==
    ParseArrayExpected(stk, ExpectToken(source, sp), tagStore, kvStore)

\* parse_array: the function an item arm called has returned r
ParseArrayItem(stk, r, sp) ==
    IF IsOk(r) THEN Continue(stk, ArrayPush(Top(stk), r[2]), sp)
    ELSE Return(stk, r, sp)

\* parse_map after the expect_token that follows the key has returned et
ParseMapColonExpected(stk, key, et) ==
    IF IsOk(et[1]) /\ TokKind(et[1][2]) = "Colon"
    THEN Call(stk, [Top(stk) EXCEPT !.at = "value", !.key = key],
              <<ItemFrame>>, et[2])
    ELSE Return(stk, Err(MkError("ExpectedColon", <<>>, et[2])), et[2])

\* parse_map after the key: r is what parse_item_token has returned for it
ParseMapColon(source, stk, r, sp) ==
    IF IsErr(r) THEN Return(stk, r, sp)
    ELSE ParseMapColonExpected(stk, r[2], ExpectToken(source, sp))

\* parse_map: the catch-all arm; o is what parse_item_token returns for the
\* key's token or the functions it calls
ParseMapEntry(source, stk, frame, o, sp) ==
    IF frame.awaits_comma
    THEN Return(stk, Err(MkError("ExpectedComma", <<>>, sp)), sp)
    ELSE IF o[1] = "call"
    THEN Call(stk, [frame EXCEPT !.at = "key"], o[2], sp)
    ELSE ParseMapColon(source, stk, o[2], sp)

\* parse_map: the match on the token read
ParseMapMatch(source, stk, frame, token, sp, tagStore, kvStore) ==
    IF TokKind(token) = "BraceClose" /\ ~frame.awaits_key
    THEN Return(stk, Ok(CborMap(frame.map)), sp)
    ELSE IF TokKind(token) = "Comma" /\ frame.awaits_comma
    THEN Continue(stk, [frame EXCEPT !.awaits_key = TRUE,
                                     !.awaits_comma = FALSE], sp)
    ELSE ParseMapEntry(source, stk, frame,
                       ParseItemToken(token, sp, tagStore, kvStore), sp)

\* parse_map after expect_token has returned et
ParseMapExpected(source, stk, et, tagStore, kvStore) ==
    IF IsErr(et[1])
    THEN IF et[1][2] = UnexpectedEndOfInput
         THEN Return(stk, Err(MkError("UnmatchedBraces", <<>>, et[2])), et[2])
         ELSE Return(stk, et[1], et[2])
    ELSE ParseMapMatch(source, stk, Top(stk), et[1][2], et[2], tagStore, kvStore)

\* parse_map: one turn of the loop, up to the first call that reads on
ParseMapLoop(source, stk, sp, tagStore, kvStore) ==
    ParseMapExpected(source, stk, ExpectToken(source, sp), tagStore, kvStore)

\* parse_map: the function the key's token called has returned r
ParseMapKey(source, stk, r, sp) == ParseMapColon(source, stk, r, sp)

\* A value match that hands every error of parse_item on as it is
ParseMapValueKept(stk, r, sp) ==
    IF IsErr(r) THEN Return(stk, r, sp)
    ELSE Continue(stk, [Top(stk) EXCEPT !.map = MapInsert(@, Top(stk).key, r[2]),
                                        !.key = NoValue, !.at = "loop",
                                        !.awaits_key = FALSE,
                                        !.awaits_comma = TRUE], sp)

\* A value match after which the loop sets awaits_comma and leaves
\* awaits_key set
ParseMapValueAwaitsBoth(stk, r, sp) ==
    IF IsErr(r)
    THEN IF /\ ErrKind(r[2]) = "UnexpectedToken"
            /\ TokKind(ErrArg(r[2])) = "BraceClose"
         THEN Return(stk, Err(MkError("ExpectedMapKey", <<>>, ErrSpan(r[2]))), sp)
         ELSE Return(stk, r, sp)
    ELSE Continue(stk, [Top(stk) EXCEPT !.map = MapInsert(@, Top(stk).key, r[2]),
                                        !.key = NoValue, !.at = "loop",
                                        !.awaits_comma = TRUE], sp)

\* A value match whose first arm lacks the guard on the token: every
\* UnexpectedToken of the value becomes ExpectedMapKey
ParseMapValueAnyToken(stk, r, sp) ==
    IF IsErr(r)
    THEN IF ErrKind(r[2]) = "UnexpectedToken"
         THEN Return(stk, Err(MkError("ExpectedMapKey", <<>>, ErrSpan(r[2]))), sp)
         ELSE Return(stk, r, sp)
    ELSE Continue(stk, [Top(stk) EXCEPT !.map = MapInsert(@, Top(stk).key, r[2]),
                                        !.key = NoValue, !.at = "loop",
                                        !.awaits_key = FALSE,
                                        !.awaits_comma = TRUE], sp)

\* parse_map: parse_item has returned r for the value
ParseMapValue(stk, r, sp) ==
    IF IsErr(r)
    THEN IF /\ ErrKind(r[2]) = "UnexpectedToken"
            /\ TokKind(ErrArg(r[2])) = "BraceClose"
         THEN Return(stk, Err(MkError("ExpectedMapKey", <<>>, ErrSpan(r[2]))), sp)
         ELSE Return(stk, r, sp)
    ELSE Continue(stk, [Top(stk) EXCEPT !.map = MapInsert(@, Top(stk).key, r[2]),
                                        !.key = NoValue, !.at = "loop",
                                        !.awaits_key = FALSE,
                                        !.awaits_comma = TRUE], sp)

\* parse_number_tag after the expect_token that follows the item has
\* returned et
ParseNumberTagExpected(stk, item, et) ==
    IF IsOk(et[1])
    THEN IF TokKind(et[1][2]) = "ParenthesisClose"
         THEN Return(stk, Ok(CborTagged(Top(stk).tag, item)), et[2])
         ELSE Return(stk, Err(MkError("UnmatchedParentheses", <<>>, et[2])), et[2])
    ELSE IF et[1][2] = UnexpectedEndOfInput
    THEN Return(stk, Err(MkError("UnmatchedParentheses", <<>>, et[2])), et[2])
    ELSE Return(stk, et[1], et[2])

\* parse_number_tag: parse_item has returned r
ParseNumberTagClose(source, stk, r, sp) ==
    IF IsErr(r) THEN Return(stk, r, sp)
    ELSE ParseNumberTagExpected(stk, r[2], ExpectToken(source, sp))

\* parse_name_tag: the tag of the name, found or not, for the item
ParseNameTagFound(stk, frame, found, item, sp) ==
    IF found[1] = "Some"
    THEN Return(stk, Ok(CborTagged(found[2], item)), sp)
    ELSE Return(stk, Err(MkError("UnknownTagName", frame.name, frame.span)), sp)

\* parse_name_tag after the expect_token that follows the item has returned
\* et
ParseNameTagExpected(stk, item, et, tagStore) ==
    IF IsErr(et[1]) THEN Return(stk, et[1], et[2])
    ELSE IF TokKind(et[1][2]) = "ParenthesisClose"
    THEN ParseNameTagFound(stk, Top(stk), Lookup(tagStore, Top(stk).name), item, et[2])
    ELSE Return(stk, Err(MkError("UnmatchedParentheses", <<>>, et[2])), et[2])

\* A parse_name_tag that looks the name up before it looks at the item
ParseNameTagCloseEager(source, stk, r, sp, tagStore) ==
    IF Lookup(tagStore, Top(stk).name)[1] = "None"
    THEN Return(stk, Err(MkError("UnknownTagName", Top(stk).name, Top(stk).span)), sp)
    ELSE IF IsErr(r) THEN Return(stk, r, sp)
    ELSE ParseNameTagExpected(stk, r[2], ExpectToken(source, sp), tagStore)

\* parse_name_tag: parse_item has returned r
ParseNameTagClose(source, stk, r, sp, tagStore) ==
    IF IsErr(r) THEN Return(stk, r, sp)
    ELSE ParseNameTagExpected(stk, r[2], ExpectToken(source, sp), tagStore)

\* The error of the first expect_token handed on as it is
FirstTokenErrorKept(e) == e

\* parse_dcbor_item: the error of the first expect_token
FirstTokenError(e) == IF e = UnexpectedEndOfInput THEN EmptyInput ELSE e

\* A closure that returns the item whatever follows it
ExtraDataIgnored(cbor, nt) == Ok(cbor)

\* A closure that returns ExtraData whatever follows the item
ExtraDataAlways(cbor, nt) == Err(MkError("ExtraData", <<>>, nt[3]))

\* parse_dcbor_item: the and_then closure; nt is what lexer.next() finds
ExtraDataCheck(cbor, nt) ==
    IF nt[1] # "eof" THEN Err(MkError("ExtraData", <<>>, nt[3])) ELSE Ok(cbor)

\* ------------------------------------------------------------------------
\* The state of one call
\* ------------------------------------------------------------------------

VARIABLES
    input,      \* src, the text handed to the entry point
    entry,      \* the entry point called: "item" or "partial"
    pc,         \* "start", "run", "return" or "done"
    stack,      \* the activation records below the entry point
    lexSpan,    \* lexer.span()
    ret,        \* the value the innermost callee has returned
    result,     \* what the entry point has returned, None before
    first,      \* what the partial call returned before the prefix it
                \* reports was parsed again, None otherwise
    origin,     \* the value whose diagnostic() the input is, NoValue for
                \* an input written by hand
    plain,      \* what the call returned on the source as it stood before
                \* whitespace and comments were put between its tokens,
                \* None otherwise
    composing,  \* the activation record of compose_dcbor_array or
                \* compose_dcbor_map, NotComposing for a direct call
    message,    \* what full_message has rendered for the error returned,
                \* None before
    GLOBAL_TAGS,    \* the process-wide tag registry
    KNOWN_VALUES    \* the process-wide known-value registry

vars ==
    <<input, entry, pc, stack, lexSpan, ret, result, first, origin, plain,
      composing, message, GLOBAL_TAGS, KNOWN_VALUES>>

\* What with_tags! hands to the closure of tag_for_name
tags == GLOBAL_TAGS

\* What KNOWN_VALUES.get() hands to known_value_for_name
knownValues == KNOWN_VALUES

\* Lookups that register the name "foo" as the tag 2
RegistriesLearned ==
    /\ GLOBAL_TAGS' = GLOBAL_TAGS \cup {<<Chars("foo"), <<2>>>>}
    /\ UNCHANGED KNOWN_VALUES

\* The lookups borrow the registries immutably: nothing is inserted
RegistriesRead == UNCHANGED <<GLOBAL_TAGS, KNOWN_VALUES>>

\* No compose function is running
NotComposing == [fn |-> "none"]

\* Token::lexer(src): nothing read, the span empty at offset 0
LexerNew == <<0, 0>>

\* The configuration c is the next state
Becomes(c) ==
    /\ stack' = c.stack
    /\ ret' = c.ret
    /\ pc' = c.pc
    /\ lexSpan' = c.span

\* The entry point returns r
Finishes(r, sp) ==
    /\ result' = r
    /\ pc' = "done"
    /\ stack' = <<>>
    /\ ret' = None
    /\ lexSpan' = sp

\* parse_item_token has returned o for the first token, or calls the
\* functions o names
FirstTokenOutcome(o, sp) ==
    /\ Becomes(IF o[1] = "call" THEN Config(o[2], None, "run", sp)
               ELSE Config(<<>>, o[2], "return", sp))
    /\ UNCHANGED result

\* The first expect_token has returned et
FirstTokenExpected(et) ==
    IF IsErr(et[1])
    THEN Finishes(Err(FirstTokenError(et[1][2])), et[2])
    ELSE FirstTokenOutcome(ParseItemToken(et[1][2], et[2], tags, knownValues), et[2])

\* The head of parse_dcbor_item: the first token and parse_item_token
FirstToken == FirstTokenExpected(ExpectToken(input, lexSpan))

ParseDcborItem ==
    /\ pc = "start"
    /\ entry = "item"
    /\ FirstToken
    /\ UNCHANGED <<input, entry, first, origin, plain, composing, message>>
    /\ RegistriesRead

\* The and_then closure is run on the item; nt is what lexer.next() finds
ItemChecked(nt) == Finishes(ExtraDataCheck(ret[2], nt), nt[3])

\* The and_then closure of parse_dcbor_item, and the error of the item
ParseDcborItemEnd ==
    /\ pc = "return"
    /\ stack = <<>>
    /\ entry = "item"
    /\ IF IsErr(ret) THEN Finishes(ret, lexSpan)
       ELSE ItemChecked(NextToken(input, lexSpan[2]))
    /\ UNCHANGED <<input, entry, first, origin, plain, composing, message>>
    /\ RegistriesRead

ParseItem ==
    /\ pc = "run"
    /\ stack # <<>>
    /\ Top(stack).fn = "parse_item"
    /\ Becomes(ParseItemBody(input, stack, lexSpan, tags, knownValues))
    /\ UNCHANGED <<input, entry, result, first, origin, plain, composing, message>>
    /\ RegistriesRead

ParseArray ==
    /\ stack # <<>>
    /\ Top(stack).fn = "parse_array"
    /\ \/ /\ pc = "run"
          /\ Becomes(ParseArrayLoop(input, stack, lexSpan, tags, knownValues))
       \/ /\ pc = "return"
          /\ Becomes(ParseArrayItem(stack, ret, lexSpan))
    /\ UNCHANGED <<input, entry, result, first, origin, plain, composing, message>>
    /\ RegistriesRead

ParseMap ==
    /\ stack # <<>>
    /\ Top(stack).fn = "parse_map"
    /\ \/ /\ pc = "run"
          /\ Becomes(ParseMapLoop(input, stack, lexSpan, tags, knownValues))
       \/ /\ pc = "return"
          /\ Top(stack).at = "key"
          /\ Becomes(ParseMapKey(input, stack, ret, lexSpan))
       \/ /\ pc = "return"
          /\ Top(stack).at = "value"
          /\ Becomes(ParseMapValue(stack, ret, lexSpan))
    /\ UNCHANGED <<input, entry, result, first, origin, plain, composing, message>>
    /\ RegistriesRead

ParseNumberTag ==
    /\ pc = "return"
    /\ stack # <<>>
    /\ Top(stack).fn = "parse_number_tag"
    /\ Becomes(ParseNumberTagClose(input, stack, ret, lexSpan))
    /\ UNCHANGED <<input, entry, result, first, origin, plain, composing, message>>
    /\ RegistriesRead

ParseNameTag ==
    /\ pc = "return"
    /\ stack # <<>>
    /\ Top(stack).fn = "parse_name_tag"
    /\ Becomes(ParseNameTagClose(input, stack, ret, lexSpan, tags))
    /\ UNCHANGED <<input, entry, result, first, origin, plain, composing, message>>
    /\ RegistriesRead

\* ------------------------------------------------------------------------
\* parse_dcbor_item_partial.  Its code is not part of the sources under
\* src/; it is modelled from its description: the item is parsed as
\* parse_dcbor_item parses it, and what follows decides the count of
\* consumed bytes instead of being an error.
\* ------------------------------------------------------------------------

\* The start offset of the first unconsumed token, or the length of the
\* source if the lexer finds none; nt is what lexer.next() finds
Consumed(source, nt) == IF nt[1] = "eof" THEN Len(source) ELSE nt[3][1]

ParseDcborItemPartial ==
    /\ pc = "start"
    /\ entry = "partial"
    /\ FirstToken
    /\ UNCHANGED <<input, entry, first, origin, plain, composing, message>>
    /\ RegistriesRead

\* The item is returned with the count of consumed bytes
ItemConsumed(nt) == Finishes(Ok(<<ret[2], Consumed(input, nt)>>), nt[3])

ParseDcborItemPartialEnd ==
    /\ pc = "return"
    /\ stack = <<>>
    /\ entry = "partial"
    /\ IF IsErr(ret) THEN Finishes(ret, lexSpan)
       ELSE ItemConsumed(NextToken(input, lexSpan[2]))
    /\ UNCHANGED <<input, entry, first, origin, plain, composing, message>>
    /\ RegistriesRead

\* A caller that got (c, k) from the partial call hands the prefix
\* src[..k] to parse_dcbor_item
ParsePrefix ==
    /\ pc = "done"
    /\ entry = "partial"
    /\ first = None
    /\ IsOk(result)
    /\ first' = result
    /\ input' = SubSeq(input, 1, result[2][2])
    /\ entry' = "item"
    /\ pc' = "start"
    /\ lexSpan' = LexerNew
    /\ result' = None
    /\ UNCHANGED <<stack, ret, origin, plain, composing, message>>
    /\ UNCHANGED <<GLOBAL_TAGS, KNOWN_VALUES>>

\* ------------------------------------------------------------------------
\* CBOR::diagnostic() on the values the parser's tests render: integers in
\* decimal, a fraction with its digits, h'..' for bytes, text in double
\* quotes, "[a, b]", "{k: v, ..}" and "tag(item)".
\* ------------------------------------------------------------------------

DigitText(d) == [i \in 1..Len(d) |-> DigitChars[d[i] + 1]]

HexText(bytes) ==
    [i \in 1..(2 * Len(bytes)) |->
        LET b == bytes[(i + 1) \div 2] IN
        HexChars[(IF i % 2 = 1 THEN b \div 16 ELSE b % 16) + 1]]

\* The entries of a map in the order of their keys' encodings; the maps
\* rendered here have non-negative integers for keys, whose encodings are
\* ordered as the integers are
KeyBefore(a, b) == DecLeq(a[2][2], b[2][2])

RECURSIVE SortedEntries(_)
SortedEntries(entries) ==
    IF entries = {} THEN <<>>
    ELSE LET e == CHOOSE x \in entries :
                      \A y \in entries : KeyBefore(x[1], y[1])
         IN <<e>> \o SortedEntries(entries \ {e})

RECURSIVE Diagnostic(_)
RECURSIVE DiagnosticItems(_)
RECURSIVE DiagnosticEntries(_)
Diagnostic(c) ==
    CASE c[1] = "bool" -> IF c[2] THEN Chars("true") ELSE Chars("false")
      [] c[1] = "null" -> Chars("null")
      [] c[1] = "int" -> (IF c[2][1] THEN <<"-">> ELSE <<>>) \o DigitText(c[2][2])
      [] c[1] = "float" ->
           CASE c[2][1] = "nan" -> Chars("NaN")
             [] c[2][1] = "inf" -> IF c[2][2] THEN Chars("-Infinity")
                                   ELSE Chars("Infinity")
             [] OTHER -> (IF c[2][2] THEN <<"-">> ELSE <<>>)
                         \o DigitText(c[2][3]) \o <<".">>
                         \o DigitText(IF c[2][4] = <<>> THEN <<0>> ELSE c[2][4])
      [] c[1] = "text" -> <<"\"">> \o c[2] \o <<"\"">>
      [] c[1] = "bytes" -> Chars("h'") \o HexText(c[2]) \o <<"'">>
      [] c[1] = "array" -> <<"[">> \o DiagnosticItems(c[2]) \o <<"]">>
      [] c[1] = "map" -> <<"{">> \o DiagnosticEntries(SortedEntries(c[2])) \o <<"}">>
      [] c[1] = "tagged" ->
           DigitText(c[2][1]) \o <<"(">> \o Diagnostic(c[2][2]) \o <<")">>

DiagnosticItems(items) ==
    IF items = <<>> THEN <<>>
    ELSE Diagnostic(Head(items))
         \o (IF Len(items) > 1 THEN Chars(", ") ELSE <<>>)
         \o DiagnosticItems(Tail(items))

DiagnosticEntries(entries) ==
    IF entries = <<>> THEN <<>>
    ELSE Diagnostic(Head(entries)[1]) \o Chars(": ") \o Diagnostic(Head(entries)[2])
         \o (IF Len(entries) > 1 THEN Chars(", ") ELSE <<>>)
         \o DiagnosticEntries(Tail(entries))

\* ------------------------------------------------------------------------
\* The sources the calls are made on
\* ------------------------------------------------------------------------

\* Pairs in the longest map written out key by key
MaxPairs == 3

\* Items in the longest array rendered
MaxItems == 2

RECURSIVE Concat(_)
Concat(parts) == IF parts = <<>> THEN <<>> ELSE Head(parts) \o Concat(Tail(parts))

Prefixes(chars) == {SubSeq(chars, 1, n) : n \in 0..Len(chars)}

\* Sources without any token, and sources that fail at the first one
BlankSources ==
    {Chars(t) : t \in {"", " ", "\n\t ", "# c", "/c/", " /c/ # c\n", "/c", "@", " @", ")"}}

\* An item and what follows it
LeadingItems ==
    {"true", "false", "1", "-0", "\"a\"", "h'01'", "'1'", "[1, 2]", "{1: 2}",
     "1(2)", "date(1)", "[", "h'0'"}

Trailers ==
    {"", " ", " )", " 2", "  # comment\n", " /c/ ", " @", ",", " /c", "\n# c\n]"}

TrailedSources == {Chars(i) \o Chars(t) : i \in LeadingItems, t \in Trailers}

\* An item inside the constructs that expect one, closed or cut short
Contexts ==
    {<<"", "">>, <<"[", "]">>, <<"[1, ", "]">>, <<"{", ": 1}">>, <<"{1: ", "}">>,
     <<"1(", ")">>, <<"date(", ")">>, <<"foo(", ")">>, <<"[[", "]]">>,
     <<"{1: [", "]}">>, <<"{1: 1(", ")}">>, <<"[date(", ")]">>, <<"1({", ": 2})">>}

InnerItems ==
    {"", "1", "1.0", "true", "null", "NaN", "-Infinity", "\"a\"", "h'01'", "h'0'",
     "b64'AQ=='", "b64'===='", "2023-02-08", "2023-02-30",
     "ur:date/cyisdadmlasgtapttl", "ur:foo/cyisdadmlasgtapttl", "ur:date/aaaaaaaa",
     "18446744073709551616(1)", "'18446744073709551616'", "'1'", "'isA'", "'foo'",
     "''", "Unit", "@", "}", "]", ")", ":", ",", "1 2", "1, 2", "1: 2",
     "[1", "{1: 2", "{1", "1(2", "[]", "{}"}

NestedSources ==
    UNION {{Chars(c[1]) \o Chars(i) \o Chars(z) : i \in InnerItems, z \in {"", c[2]}}
           : c \in Contexts}

\* Maps written out key by key, the values 1, 2, ..
MapKeyTexts == <<"\"key1\"", "\"key2\"", "1", "1.0", "2.0", "[1]", "h'01'">>

MapText(keys) ==
    Chars("{")
    \o Concat([i \in 1..Len(keys) |->
                 (IF i > 1 THEN Chars(", ") ELSE <<>>)
                 \o Chars(MapKeyTexts[keys[i]]) \o Chars(": ") \o DigitText(<<i>>)])
    \o Chars("}")

MapSources ==
    UNION {{MapText(keys) : keys \in [1..n -> 1..Len(MapKeyTexts)]} : n \in 0..MaxPairs}

\* Sources cut short at every byte
CutTexts ==
    {"{1: 2, \"a\": [3], 4: 5(6)}", "{date(1): {2: 3}, [4]: foo(5)}",
     "[1(2), {3: 4}, date(5)]  # c"}

CutSources == UNION {Prefixes(Chars(t)) : t \in CutTexts}

\* Elements and commas in every order: a shape is a sequence over
\* {"e", ","}, written between the brackets of an array or of a map with a
\* space after each piece; the element at place i is 1 in an array and the
\* pair i: 0 in a map
MaxPieces == 4

Shapes == UNION {[1..n -> {"e", ","}] : n \in 0..MaxPieces}

ShapeText(container, shape) ==
    (IF container = "array" THEN <<"[">> ELSE <<"{">>)
    \o Concat([i \in 1..Len(shape) |->
                 (IF shape[i] = "," THEN <<",">>
                  ELSE IF container = "array" THEN <<"1">>
                  ELSE DigitText(<<i>>) \o Chars(": 0"))
                 \o <<" ">>])
    \o (IF container = "array" THEN <<"]">> ELSE <<"}">>)

ShapeSources == {ShapeText(c, shape) : c \in {"array", "map"}, shape \in Shapes}

\* Sources of the parser's tests and of its description
ExampleSources ==
    {Chars(t) : t \in {"{1: 2, 3:}", "[{1: 2, 3:}]", "{1: {2:}}", "{1: [}", "{1: date(}",
                        "'0'", "40000(0)", "40000(1)", "'42'", "40000(42)",
                        "'9007199254740993'", "40000(9007199254740993)",
                        "'18446744073709551615'", "40000(18446744073709551615)",
                        "[Unit]", "['']", "['0']",
                        "2023", "2023-01-01", "[2023-01-01]", "{1: 2023-01-01}",
                        "2023-02-08T15:30:45Z", "[2023, 1]", "2023 -01"}}

\* String literals with escape sequences, well-formed and not, alone and
\* inside the constructs that take an item
StringTexts ==
    {"\"\"", "\"She said \\\"Hi\\\"\"", "\"a\\\\b\"", "\"1\\n2\\tT\"",
     "\"\\u0041\\u00e9\"", "\"\\/\\b\\f\\r\"", "\"a, b: [c]\"",
     "\"\\x\"", "\"\\u12\"", "\"a", "\"a\\\""}

StringContexts ==
    {<<"", "">>, <<"[", "]">>, <<"[1, ", ", 2]">>, <<"{", ": 1}">>, <<"{1: ", "}">>,
     <<"1(", ")">>, <<"date(", ")">>}

StringSources ==
    {Chars(c[1]) \o Chars(t) \o Chars(c[2]) : t \in StringTexts, c \in StringContexts}

\* Sources of more than one line whose error is on a later line
LineSources ==
    {Chars(t) : t \in {"[1, 2,\n3, 4,", "[1,\n", "[1,\r\n 2 3]", "\n\n  @",
                        "{1: 2,\n 3}", "[1,\n\n2 /c\nd/ }", "1\r"}}

WrittenSources ==
    BlankSources \cup TrailedSources \cup NestedSources \cup MapSources \cup CutSources
    \cup ShapeSources \cup ExampleSources \cup StringSources \cup LineSources

\* The sources that are parsed again with whitespace and comments between
\* their tokens
CommentedSources ==
    BlankSources \cup TrailedSources \cup NestedSources \cup CutSources
    \cup ExampleSources \cup StringSources

\* The values rendered for a round trip
TwoTo53 == <<9, 0, 0, 7, 1, 9, 9, 2, 5, 4, 7, 4, 0, 9, 9, 2>>

RenderedAtoms ==
    {CborBool(TRUE), CborBool(FALSE), CborNull,
     CborInt(FALSE, <<0>>), CborInt(FALSE, <<1, 0>>), CborInt(TRUE, <<1>>),
     CborInt(FALSE, TwoTo53), CborInt(FALSE, DecInc(TwoTo53)),
     CborInt(TRUE, DecInc(TwoTo53)), CborInt(FALSE, U64Max), CborInt(TRUE, TwoTo64),
     <<"float", <<"finite", FALSE, <<3>>, <<2, 8>>>>>>,
     <<"float", <<"finite", TRUE, <<0>>, <<5>>>>>>,
     <<"float", F64NaN>>, <<"float", F64Infinity>>, <<"float", F64NegInfinity>>,
     CborText(Chars("Hello, world!")), CborText(<<>>),
     CborByteString(<<1, 2, 3>>), CborByteString(<<>>)}

RenderedElements ==
    {CborBool(TRUE), CborInt(FALSE, <<1>>), CborText(Chars("a")), CborByteString(<<1, 2>>)}

RenderedArrays ==
    UNION {{CborArray(items) : items \in [1..n -> RenderedElements]} : n \in 0..MaxItems}

RenderedMaps ==
    {CborMap({})}
    \cup {CborMap({<<CborInt(FALSE, <<1>>), v>>}) : v \in RenderedElements}
    \cup {CborMap({<<CborInt(FALSE, <<1>>), v>>, <<CborInt(FALSE, <<2>>), w>>})
            : v \in RenderedElements, w \in RenderedArrays}

RenderedTagged ==
    {CborTagged(t, c) : t \in {<<1>>, <<1, 2, 3, 4>>},
                        c \in RenderedAtoms \cup RenderedArrays}

RenderedValues ==
    RenderedAtoms \cup RenderedArrays \cup RenderedMaps \cup RenderedTagged

\* ------------------------------------------------------------------------
\* The same source with whitespace and comments between its tokens, as the
\* parser's tests test_inline_comments and test_end_of_line_comments write
\* it
\* ------------------------------------------------------------------------

\* What is put between the tokens: whitespace, /../ comments, and # comments
\* with the line end that closes them
Trivia ==
    {Chars(t) : t \in {" ", "\n\t", "/c/", "/ 1, 2 /", "# c\n", " /a/ # [b\n /c/"}}

\* src from offset pos on with trivia before each of its tokens and after
\* the last one; nt is what the lexer finds from pos
RECURSIVE Commented(_, _, _)
RECURSIVE CommentedAt(_, _, _, _)
CommentedAt(src, pos, trivia, nt) ==
    IF nt[1] = "tok"
    THEN Slice(src, pos, nt[3][1]) \o trivia \o Slice(src, nt[3][1], nt[3][2])
         \o Commented(src, nt[3][2], trivia)
    ELSE Slice(src, pos, Len(src)) \o trivia

Commented(src, pos, trivia) == CommentedAt(src, pos, trivia, NextToken(src, pos))

\* A caller that got an item from parse_dcbor_item calls it again on the
\* source with trivia between the tokens
ParseCommented ==
    /\ pc = "done"
    /\ entry = "item"
    /\ first = None
    /\ plain = None
    /\ composing = NotComposing
    /\ IsOk(result)
    /\ input \in CommentedSources
    /\ \E trivia \in Trivia : input' = Commented(input, 0, trivia)
    /\ plain' = result
    /\ pc' = "start"
    /\ lexSpan' = LexerNew
    /\ result' = None
    /\ UNCHANGED <<entry, stack, ret, first, origin, composing, message>>
    /\ UNCHANGED <<GLOBAL_TAGS, KNOWN_VALUES>>

\* ------------------------------------------------------------------------
\* compose.rs: compose_dcbor_array and compose_dcbor_map parse each
\* fragment with parse_dcbor_item and collect the items
\* ------------------------------------------------------------------------

\* Error::InvalidOddMapLength
InvalidOddMapLength == <<"InvalidOddMapLength", <<>>>>

\* Error::ParseError(e), what the ? operator makes of a parse error
ParseError(e) == <<"ParseError", e>>

\* The activation record of a compose function on entry: array is the
\* slice of fragments, i counts the fragments parsed, result is the Vec of
\* compose_dcbor_array, map and key are the Map of compose_dcbor_map and
\* the key parsed for the pair at hand, returned is what the function has
\* returned
Composing(fn, array) ==
    [fn |-> fn, array |-> array, i |-> 0, result |-> <<>>, map |-> {},
     key |-> NoValue, returned |-> None]

\* parse_dcbor_item(src) is called
CallsParseDcborItem(src) ==
    /\ input' = src
    /\ pc' = "start"
    /\ lexSpan' = LexerNew
    /\ result' = None
    /\ UNCHANGED composing

\* The compose function returns r
ComposeReturns(r) ==
    /\ composing' = [composing EXCEPT !.returned = r]
    /\ pc' = "composed"
    /\ UNCHANGED <<input, lexSpan, result>>

\* The compose function goes on with the record c
ComposeContinues(c) ==
    /\ composing' = c
    /\ pc' = "compose"
    /\ UNCHANGED <<input, lexSpan, result>>

\* result.push(cbor), reversed
ArrayCollectFront(items, cbor) == <<cbor>> \o items

\* result.push(cbor)
ArrayCollect(items, cbor) == Append(items, cbor)

\* array.len() % 2 != 0, never found
OddLengthIgnored(array) == FALSE

\* array.len() % 2 != 0
OddLength(array) == Len(array) % 2 # 0

\* What compose_dcbor_map does with the item of fragment i (counted from
\* 0): an even fragment is the key, an odd one the value that is inserted
MapCollect(c, cbor) ==
    IF c.i % 2 = 0
    THEN [c EXCEPT !.key = cbor, !.i = @ + 1]
    ELSE [c EXCEPT !.map = MapInsert(@, c.key, cbor), !.key = NoValue, !.i = @ + 1]

ComposeDcborArray ==
    /\ composing.fn = "compose_dcbor_array"
    /\ \/ /\ pc = "compose"
          /\ IF composing.i < Len(composing.array)
             THEN CallsParseDcborItem(composing.array[composing.i + 1])
             ELSE ComposeReturns(Ok(CborArray(composing.result)))
       \/ /\ pc = "done"
          /\ IF IsErr(result)
             THEN ComposeReturns(Err(ParseError(result[2])))
             ELSE ComposeContinues([composing EXCEPT
                                      !.result = ArrayCollect(@, result[2]),
                                      !.i = @ + 1])
    /\ UNCHANGED <<entry, stack, ret, first, origin, plain, message>>
    /\ UNCHANGED <<GLOBAL_TAGS, KNOWN_VALUES>>

ComposeDcborMap ==
    /\ composing.fn = "compose_dcbor_map"
    /\ \/ /\ pc = "compose"
          /\ IF composing.i = 0 /\ OddLength(composing.array)
             THEN ComposeReturns(Err(InvalidOddMapLength))
             ELSE IF composing.i < Len(composing.array)
             THEN CallsParseDcborItem(composing.array[composing.i + 1])
             ELSE ComposeReturns(Ok(CborMap(composing.map)))
       \/ /\ pc = "done"
          /\ IF IsErr(result)
             THEN ComposeReturns(Err(ParseError(result[2])))
             ELSE ComposeContinues(MapCollect(composing, result[2]))
    /\ UNCHANGED <<entry, stack, ret, first, origin, plain, message>>
    /\ UNCHANGED <<GLOBAL_TAGS, KNOWN_VALUES>>

\* The fragments the lists are drawn from, and lists of the composer's
\* tests
MaxFragments == 3

FragmentTexts == {Chars(t) : t \in {"1", "2", "", "[1 2"}}

FragmentLists == UNION {[1..n -> FragmentTexts] : n \in 0..MaxFragments}

ExampleLists ==
    {<<Chars("1"), Chars("2"), Chars(""), Chars("4")>>,
     <<Chars("1"), Chars("2"), Chars("1"), Chars("3")>>,
     <<Chars("3"), Chars("4"), Chars("1"), Chars("2")>>,
     <<Chars("1"), Chars("2"), Chars("3"), Chars("4")>>,
     <<Chars("1"), Chars("2"), Chars("1.0"), Chars("3")>>,
     <<Chars("2"), Chars("1"), Chars("1"), Chars("1"), Chars("2"), Chars("3")>>,
     <<Chars("true"), Chars("false"), Chars("null"), Chars("3.14")>>,
     <<Chars("[1, 2]"), Chars("[3, 4]")>>,
     <<Chars("{1: 2}"), Chars("{3: 4}")>>,
     <<Chars("{1: 2, 1: 3}"), Chars("1")>>,
     <<Chars("\"hello\""), Chars("\"world\"")>>}

ComposeCalls ==
    {Composing(fn, array) : fn \in {"compose_dcbor_array", "compose_dcbor_map"},
                            array \in FragmentLists \cup ExampleLists}

\* ------------------------------------------------------------------------
\* error.rs: full_message renders an error against the source it came from
\* ------------------------------------------------------------------------

\* The #[error(..)] text of each kind of error.  A token is rendered by
\* {0:?} with the name of its variant; its payload is left out.
Display(e) ==
    CASE ErrKind(e) = "EmptyInput" -> Chars("Empty input")
      [] ErrKind(e) = "UnexpectedEndOfInput" -> Chars("Unexpected end of input")
      [] ErrKind(e) = "ExtraData" -> Chars("Extra data at end of input")
      [] ErrKind(e) = "UnexpectedToken" -> Chars("Unexpected token ") \o Chars(TokKind(ErrArg(e)))
      [] ErrKind(e) = "UnrecognizedToken" -> Chars("Unrecognized token")
      [] ErrKind(e) = "ExpectedComma" -> Chars("Expected comma")
      [] ErrKind(e) = "ExpectedColon" -> Chars("Expected colon")
      [] ErrKind(e) = "UnmatchedParentheses" -> Chars("Unmatched parentheses")
      [] ErrKind(e) = "UnmatchedBraces" -> Chars("Unmatched braces")
      [] ErrKind(e) = "ExpectedMapKey" -> Chars("Expected map key")
      [] ErrKind(e) = "InvalidTagValue" -> Chars("Invalid tag value '") \o ErrArg(e) \o Chars("'")
      [] ErrKind(e) = "UnknownTagName" -> Chars("Unknown tag name '") \o ErrArg(e) \o Chars("'")
      [] ErrKind(e) = "InvalidHexString" -> Chars("Invalid hex string")
      [] ErrKind(e) = "InvalidBase64String" -> Chars("Invalid base64 string")
      [] ErrKind(e) = "UnknownUrType" -> Chars("Unknown UR type '") \o ErrArg(e) \o Chars("'")
      [] ErrKind(e) = "InvalidUr" -> Chars("Invalid UR '") \o ErrArg(e) \o Chars("'")
      [] ErrKind(e) = "InvalidKnownValue" -> Chars("Invalid known value '") \o ErrArg(e) \o Chars("'")
      [] ErrKind(e) = "UnknownKnownValueName" ->
            Chars("Unknown known value name '") \o ErrArg(e) \o Chars("'")
      [] ErrKind(e) = "InvalidDateString" -> Chars("Invalid date string '") \o ErrArg(e) \o Chars("'")
      [] ErrKind(e) = "DuplicateMapKey" -> Chars("Duplicate map key")

\* usize's to_string
UsizeToString(n) ==
    IF n < 10 THEN <<DigitChars[n + 1]>>
    ELSE IF n < 100 THEN <<DigitChars[(n \div 10) + 1], DigitChars[(n % 10) + 1]>>
    ELSE <<DigitChars[(n \div 100) + 1], DigitChars[((n \div 10) % 10) + 1],
           DigitChars[(n % 10) + 1]>>

\* c.repeat(n)
Repeat(c, n) == [i \in 1..n |-> c]

\* a.saturating_sub(b)
SaturatingSub(a, b) == IF a >= b THEN a - b ELSE 0

\* The offsets the loop of format_message finds a '\n' at: those before
\* start
NewlinesBefore(source, start) ==
    {idx \in 0..(Len(source) - 1) : idx < start /\ At(source, idx) = "\n"}

\* line_number after the loop
LineNumber(source, start) == 1 + Cardinality(NewlinesBefore(source, start))

\* line_start after the loop: past the last '\n' found
LineStartAfter(found) ==
    IF found = {} THEN 0 ELSE (CHOOSE idx \in found : \A other \in found : other <= idx) + 1

LineStart(source, start) == LineStartAfter(NewlinesBefore(source, start))

\* The offset of the k-th '\n' of source, k counted from 1
NthNewline(source, k) ==
    CHOOSE idx \in NewlinesBefore(source, Len(source)) :
        Cardinality(NewlinesBefore(source, idx)) = k - 1

\* The number of lines source.lines() yields: one for each '\n' and one for
\* what follows the last '\n', if anything does
LinesCount(source) ==
    Cardinality(NewlinesBefore(source, Len(source)))
    + (IF source # <<>> /\ At(source, Len(source) - 1) # "\n" THEN 1 ELSE 0)

\* A line that ended with '\n', without it and without a '\r' before it
Terminated(line) ==
    IF line # <<>> /\ line[Len(line)] = "\r" THEN SubSeq(line, 1, Len(line) - 1) ELSE line

\* source.lines().nth(n).unwrap_or("")
NthLine(source, n) ==
    IF n >= LinesCount(source) THEN <<>>
    ELSE IF n < Cardinality(NewlinesBefore(source, Len(source)))
    THEN Terminated(Slice(source, IF n = 0 THEN 0 ELSE NthNewline(source, n) + 1,
                          NthNewline(source, n + 1)))
    ELSE Slice(source, IF n = 0 THEN 0 ELSE NthNewline(source, n) + 1, Len(source))

\* end.saturating_sub(start), with no caret for an empty span
UnderlineLenExact(start, end) == SaturatingSub(end, start)

\* end.saturating_sub(start).max(1)
UnderlineLen(start, end) ==
    IF SaturatingSub(end, start) >= 1 THEN SaturatingSub(end, start) ELSE 1

\* format_message(message, source, range)
FormatMessage(text, source, range) ==
    Chars("line ") \o UsizeToString(LineNumber(source, range[1])) \o Chars(": ") \o text
    \o <<"\n">> \o NthLine(source, LineNumber(source, range[1]) - 1)
    \o <<"\n">> \o Repeat(" ", SaturatingSub(range[1], LineStart(source, range[1])))
    \o Repeat("^", UnderlineLen(range[1], range[2]))

\* The range full_message hands to format_message
MessageRange(e, source) ==
    IF e = EmptyInput THEN <<0, 0>>
    ELSE IF e = UnexpectedEndOfInput THEN <<Len(source), Len(source)>>
    ELSE ErrSpan(e)

\* A caller that got an error from the parser calls error.full_message(src)
FullMessage ==
    /\ pc = "done"
    /\ composing = NotComposing
    /\ IsErr(result)
    /\ message = None
    /\ message' = FormatMessage(Display(result[2]), input, MessageRange(result[2], input))
    /\ UNCHANGED <<input, entry, pc, stack, lexSpan, ret, result, first, origin, plain,
                   composing, GLOBAL_TAGS, KNOWN_VALUES>>

\* The calls: <<source, entry point, rendered value>>
Calls ==
    {<<t, "item", NoValue>> : t \in WrittenSources}
    \cup {<<t, "partial", NoValue>> : t \in BlankSources \cup TrailedSources}
    \cup {<<Diagnostic(c), "item", c>> : c \in RenderedValues}

\* The state in which one of calls or of composed is made
InitOf(calls, composed) ==
    /\ \/ \E call \in calls :
             /\ input = call[1]
             /\ entry = call[2]
             /\ origin = call[3]
             /\ pc = "start"
             /\ composing = NotComposing
       \/ /\ composing \in composed
          /\ input = <<>>
          /\ entry = "item"
          /\ origin = NoValue
          /\ pc = "compose"
    /\ stack = <<>>
    /\ lexSpan = LexerNew
    /\ ret = None
    /\ result = None
    /\ first = None
    /\ plain = None
    /\ message = None
    /\ GLOBAL_TAGS = RegisteredTags
    /\ KNOWN_VALUES = RegisteredKnownValues

Init == InitOf(Calls, ComposeCalls)

Next ==
    \/ ParseDcborItem
    \/ ParseDcborItemEnd
    \/ ParseItem
    \/ ParseArray
    \/ ParseMap
    \/ ParseNumberTag
    \/ ParseNameTag
    \/ ParseDcborItemPartial
    \/ ParseDcborItemPartialEnd
    \/ ParsePrefix
    \/ ParseCommented
    \/ ComposeDcborArray
    \/ ComposeDcborMap
    \/ FullMessage

Spec == Init /\ [][Next]_vars

\* The steps of the parser: a call, once made, runs on until it returns
ParserStep ==
    \/ ParseDcborItem
    \/ ParseDcborItemEnd
    \/ ParseItem
    \/ ParseArray
    \/ ParseMap
    \/ ParseNumberTag
    \/ ParseNameTag
    \/ ParseDcborItemPartial
    \/ ParseDcborItemPartialEnd

\* A call of the parser is running: a step of the parser is enabled
ParserEnabled == pc \in {"start", "run", "return"}

\* The parser is synchronous: nothing suspends a call between its steps.
\* This is WF_vars(ParserStep) written out, with ParserEnabled for
\* ENABLED <<ParserStep>>_vars.
ParserFairness == []<>(~ParserEnabled) \/ []<><<ParserStep>>_vars

FairSpec == Spec /\ ParserFairness

\* ------------------------------------------------------------------------
\* Properties
\* ------------------------------------------------------------------------

Returned == pc = "done"

\* The item of a returned Ok
ReturnedItem == IF entry = "partial" THEN result[2][1] ELSE result[2]

ReturnedErrorKind == IF IsErr(result) THEN ErrKind(result[2]) ELSE "none"

\* The length of the longest prefix of chars that is whitespace and
\* comments: /../ comments, and # comments up to the end of their line
RECURSIVE TriviaLength(_)
TriviaLength(chars) ==
    LET n == Len(chars)
        slashes == {i \in 2..n : chars[i] = "/"}
        newlines == {i \in 2..n : chars[i] = "\n"}
        closing == CHOOSE i \in slashes : \A j \in slashes : i <= j
        lineEnd == IF newlines = {} THEN n
                   ELSE (CHOOSE i \in newlines : \A j \in newlines : i <= j) - 1
    IN
    IF chars = <<>> THEN 0
    ELSE IF chars[1] \in {" ", "\t", "\r", "\n", "\f"}
    THEN 1 + TriviaLength(Tail(chars))
    ELSE IF chars[1] = "#"
    THEN lineEnd + TriviaLength(SubSeq(chars, lineEnd + 1, n))
    ELSE IF chars[1] = "/" /\ slashes # {}
    THEN closing + TriviaLength(SubSeq(chars, closing + 1, n))
    ELSE 0

OnlyTrivia(chars) == TriviaLength(chars) = Len(chars)

\* What follows the last token read
Rest == SubSeq(input, lexSpan[2] + 1, Len(input))

\* The item has been parsed and the entry point named is about to return
ItemParsed(entryPoint) ==
    /\ pc = "return"
    /\ stack = <<>>
    /\ entry = entryPoint
    /\ IsOk(ret)

\* C1: a map literal with a key equivalent to an earlier key of the same map
\* fails with DuplicateMapKey, the span that of the second key: [23,29) for
\* {"key1": 1, "key2": 2, "key1": 3}, [7,10) for {1: 1, 1.0: 2}, and [12,17)
\* for {h'01': 1, h'01': 2}.
C1_DuplicateMapKey ==
    \A d \in {<<"{\"key1\": 1, \"key2\": 2, \"key1\": 3}", <<23, 29>>>>,
              <<"{1: 1, 1.0: 2}", <<7, 10>>>>,
              <<"{h'01': 1, h'01': 2}", <<12, 17>>>>} :
        (Returned /\ entry = "item" /\ input = Chars(d[1]))
            => result = Err(MkError("DuplicateMapKey", <<>>, d[2]))

\* C1: the map with the key "key1" twice is returned, the later value kept
C1_DuplicateAccepted ==
    /\ Returned
    /\ entry = "item"
    /\ input = Chars("{\"key1\": 1, \"key2\": 2, \"key1\": 3}")
    /\ result = Ok(CborMap({<<CborText(Chars("key1")), CborInt(FALSE, <<3>>)>>,
                            <<CborText(Chars("key2")), CborInt(FALSE, <<2>>)>>}))

\* C2: once the first item is parsed, parse_dcbor_item returns it if and
\* only if nothing but whitespace and comments follows; otherwise it returns
\* ExtraData with the span of what follows, which starts at the first byte
\* that is neither.
C2_ExtraData ==
    [][ItemParsed("item") =>
          /\ pc' = "done"
          /\ IsOk(result') <=> OnlyTrivia(Rest)
          /\ IsOk(result') => result' = ret
          /\ IsErr(result') =>
                /\ ErrKind(result'[2]) = "ExtraData"
                /\ ErrSpan(result'[2])[1] = lexSpan[2] + TriviaLength(Rest)
                /\ ErrSpan(result'[2]) = NextToken(input, lexSpan[2])[3]]_vars

\* C2: "true )" has returned ExtraData for the parenthesis
C2_Witness ==
    /\ Returned
    /\ entry = "item"
    /\ input = Chars("true )")
    /\ result = Err(MkError("ExtraData", <<>>, <<5, 6>>))

\* C3: parse_dcbor_item returns EmptyInput exactly for the sources that are
\* nothing but whitespace and comments, and UnexpectedEndOfInput for none of
\* them.
C3_EmptyInput ==
    (Returned /\ entry = "item") =>
        /\ (result = Err(EmptyInput)) <=> OnlyTrivia(input)
        /\ OnlyTrivia(input) => result # Err(UnexpectedEndOfInput)

\* C3: a source of two comments has returned EmptyInput
C3_Witness ==
    /\ Returned
    /\ entry = "item"
    /\ input = Chars(" /c/ # c\n")
    /\ result = Err(EmptyInput)

\* No two entries of the map have the same key
UniqueKeys(entries) == \A p, q \in entries : p[1] = q[1] => p = q

\* Every map in the value c has unique keys
RECURSIVE MapsUnique(_)
MapsUnique(c) ==
    CASE c[1] = "map" ->
           /\ UniqueKeys(c[2])
           /\ \A p \in c[2] : MapsUnique(p[1]) /\ MapsUnique(p[2])
      [] c[1] = "array" -> \A i \in 1..Len(c[2]) : MapsUnique(c[2][i])
      [] c[1] = "tagged" -> MapsUnique(c[2][2])
      [] OTHER -> TRUE

\* C4: the map every activation of parse_map is building, every item
\* collected so far, and every map in a value an entry point returns have
\* no two entries with equal keys; keys are equal when they are the same
\* value, a float that holds an integer being that integer.
C4_UniqueKeys ==
    /\ \A i \in 1..Len(stack) :
          /\ UniqueKeys(stack[i].map)
          /\ \A p \in stack[i].map : MapsUnique(p[1]) /\ MapsUnique(p[2])
          /\ \A j \in 1..Len(stack[i].items) : MapsUnique(stack[i].items[j])
    /\ IsOk(ret) => MapsUnique(ret[2])
    /\ (Returned /\ IsOk(result)) => MapsUnique(ReturnedItem)

\* C4: {1: 1, 1.0: 2}, whose keys are equal, has been returned as a map of
\* the one entry 1: 2
C4_Witness ==
    /\ Returned
    /\ input = Chars("{1: 1, 1.0: 2}")
    /\ result = Ok(CborMap({<<CborInt(FALSE, <<1>>), CborInt(FALSE, <<2>>)>>}))

\* C5: parsing the diagnostic() of a value returns that value.
C5_RoundTrip == (Returned /\ origin # NoValue) => result = Ok(origin)

\* C5: the diagnostic of the integer 2^53 + 1 has been parsed as 2^53
C5_Rounded ==
    /\ Returned
    /\ origin = CborInt(FALSE, DecInc(TwoTo53))
    /\ input = Chars("9007199254740993")
    /\ result = Ok(CborInt(FALSE, TwoTo53))

\* C6: once the first item is parsed, parse_dcbor_item_partial returns it
\* with the offset of the first byte after it that is neither whitespace
\* nor comment, the length of the source if there is none: "true )" gives
\* (true, 5) and "false  # comment\n" gives (false, 17).
C6_PartialConsumed ==
    [][/\ ItemParsed("partial") =>
             /\ pc' = "done"
             /\ result' = Ok(<<ret[2], lexSpan[2] + TriviaLength(Rest)>>)
             /\ OnlyTrivia(Rest) => result'[2][2] = Len(input)
       /\ (pc' = "done" /\ entry' = "partial" /\ input' = Chars("true )"))
             => result' = Ok(<<CborBool(TRUE), 5>>)
       /\ (pc' = "done" /\ entry' = "partial" /\ input' = Chars("false  # comment\n"))
             => result' = Ok(<<CborBool(FALSE), 17>>)]_vars

\* C6: the partial call on "[1, 2]\n# c\n]" has returned the array and 11,
\* the offset of the stray bracket
C6_Witness ==
    /\ Returned
    /\ entry = "partial"
    /\ input = Chars("[1, 2]\n# c\n]")
    /\ result = Ok(<<CborArray(<<CborInt(FALSE, <<1>>), CborInt(FALSE, <<2>>)>>), 11>>)

\* C7: when the partial call has returned (c, k), parse_dcbor_item on the
\* first k bytes of the same source returns c.
C7_PartialMonotonic ==
    (Returned /\ first # None) =>
        /\ Len(input) = first[2][2]
        /\ result = Ok(first[2][1])

\* C7: after the partial call on "{1: 2} /c/ " returned the map and 11, the
\* call on those 11 bytes has returned the map
C7_Witness ==
    /\ Returned
    /\ entry = "item"
    /\ first = Ok(<<CborMap({<<CborInt(FALSE, <<1>>), CborInt(FALSE, <<2>>)>>}), 11>>)
    /\ input = Chars("{1: 2} /c/ ")
    /\ result = Ok(first[2][1])

\* C8: no call fails with UnexpectedToken for a token that carries the
\* error of its own decoding: where an item is expected such a token makes
\* the call fail with the error it carries.
C8_EmbeddedError ==
    (Returned /\ ReturnedErrorKind = "UnexpectedToken")
        => ~HasErrPayload(ErrArg(result[2]))

\* C8: [h'0'] has failed with UnexpectedToken for the byte string, not with
\* the InvalidHexString the token carries
C8_ArrayElement ==
    /\ Returned
    /\ input = Chars("[h'0']")
    /\ result = Err(MkError("UnexpectedToken",
                            MkToken("ByteStringHex",
                                    Err(MkError("InvalidHexString", <<>>, <<1, 5>>))),
                            <<1, 5>>))

\* C9: a source that ends inside a map - after the brace, a key, a colon, a
\* value or a comma - fails with UnmatchedBraces.
C9_UnmatchedBraces ==
    \A t \in {"{", "{1", "{1:", "{1: 2", "{1: 2,"} :
        (Returned /\ entry = "item" /\ input = Chars(t))
            => ReturnedErrorKind = "UnmatchedBraces"

\* C9: "{1" has failed with ExpectedColon and "{1:" with
\* UnexpectedEndOfInput
C9_AfterKey ==
    /\ Returned
    /\ entry = "item"
    /\ \/ input = Chars("{1") /\ result = Err(MkError("ExpectedColon", <<>>, <<2, 2>>))
       \/ input = Chars("{1:") /\ result = Err(UnexpectedEndOfInput)

\* C10: a source that ends inside a tagged value, before the inner item or
\* after it, fails with UnmatchedParentheses, for a numeric tag and for a
\* named one; so does a tagged value whose item is followed by a token
\* other than the closing parenthesis.
C10_UnmatchedParentheses ==
    \A t \in {"1(", "1(1", "date(", "date(1", "1(1 2)", "date(1 2)"} :
        (Returned /\ entry = "item" /\ input = Chars(t))
            => ReturnedErrorKind = "UnmatchedParentheses"

\* C10: "1(" and "date(1" have failed with UnexpectedEndOfInput
C10_EndOfInput ==
    /\ Returned
    /\ entry = "item"
    /\ input \in {Chars("1("), Chars("date(1")}
    /\ result = Err(UnexpectedEndOfInput)

\* The innermost function is parse_array or parse_map at the head of its loop
InContainer ==
    /\ pc = "run"
    /\ stack # <<>>
    /\ Top(stack).fn \in {"parse_array", "parse_map"}

\* The text of the last token read
LastRead == Slice(input, lexSpan[1], lexSpan[2])

\* The last token read ended an element of the innermost container: it is
\* neither the bracket that opened the container nor a comma
AfterElement == InContainer /\ LastRead \notin {<<"[">>, <<"{">>, <<",">>}

\* The token that closes the innermost container
OwnClose ==
    IF Top(stack).fn = "parse_array" THEN "BracketClose" ELSE "BraceClose"

\* What the lexer finds after the last token read
Upcoming == NextToken(input, lexSpan[2])

\* The next token is neither a comma nor the closing bracket of the
\* innermost container
OtherTokenNext ==
    /\ Upcoming[1] = "tok"
    /\ TokKind(Upcoming[2]) \notin {"Comma", OwnClose}

IsError(r, kind) == IsErr(r) /\ ErrKind(r[2]) = kind

\* C11: in an array or a map, after a complete element, a next token other
\* than a comma or the container's own closing bracket makes the container
\* return ExpectedComma with that token's span; ExpectedComma arises nowhere
\* else, and once returned it is handed up unchanged to the caller of the
\* entry point.
C11_ExpectedComma ==
    [][/\ (AfterElement /\ OtherTokenNext)
             => ret' = Err(MkError("ExpectedComma", <<>>, Upcoming[3]))
       /\ (IsError(ret', "ExpectedComma") /\ ~IsError(ret, "ExpectedComma"))
             => (AfterElement /\ OtherTokenNext)
       /\ IsError(ret, "ExpectedComma") => (ret' = ret \/ result' = ret)
       /\ IsError(result', "ExpectedComma") => (result' = ret \/ result' = result)]_vars

\* C11: [1 2] has failed with ExpectedComma for the 2, and {1: 1 2} for its 2
C11_Witness ==
    /\ Returned
    /\ entry = "item"
    /\ \/ input = Chars("[1 2]") /\ result = Err(MkError("ExpectedComma", <<>>, <<3, 4>>))
       \/ input = Chars("{1: 1 2}") /\ result = Err(MkError("ExpectedComma", <<>>, <<6, 7>>))

\* The kinds of the tokens of src from offset pos on, up to its end or to
\* the first text the lexer does not recognize
RECURSIVE TokenKinds(_, _)
TokenKinds(src, pos) ==
    LET nt == NextToken(src, pos) IN
    IF nt[1] = "tok" THEN <<TokKind(nt[2])>> \o TokenKinds(src, nt[3][2])
    ELSE <<>>

\* A comma right after an opening bracket or a comma, and a closing bracket
\* right after a comma
MisplacedCommas ==
    {<<"BracketOpen", "Comma">>, <<"BraceOpen", "Comma">>, <<"Comma", "Comma">>,
     <<"Comma", "BracketClose">>, <<"Comma", "BraceClose">>}

HasMisplacedComma(kinds) ==
    \E i \in 1..(Len(kinds) - 1) : <<kinds[i], kinds[i + 1]>> \in MisplacedCommas

\* The shape is (element (, element)*)?
Alternates(shape) ==
    \/ shape = <<>>
    \/ /\ Len(shape) % 2 = 1
       /\ \A i \in 1..Len(shape) : shape[i] = (IF i % 2 = 1 THEN "e" ELSE ",")

\* The value of a well-formed shape
ShapeValue(container, shape) ==
    IF container = "array"
    THEN CborArray([i \in 1..((Len(shape) + 1) \div 2) |-> CborInt(FALSE, <<1>>)])
    ELSE CborMap({<<CborInt(FALSE, <<i>>), CborInt(FALSE, <<0>>)>>
                    : i \in {j \in 1..Len(shape) : shape[j] = "e"}})

\* C12: parse_dcbor_item accepts no source in which a comma follows an
\* opening bracket or another comma, or a closing bracket follows a comma;
\* of the arrays and maps written as elements and commas in every order it
\* accepts exactly those of the form (element (, element)*)?, the empty
\* array and the empty map among them, and returns their elements.
C12_Separators ==
    (Returned /\ entry = "item") =>
        /\ IsOk(result) => ~HasMisplacedComma(TokenKinds(input, 0))
        /\ \A c \in {"array", "map"}, shape \in Shapes :
              input = ShapeText(c, shape) =>
                  /\ IsOk(result) <=> Alternates(shape)
                  /\ IsOk(result) => result = Ok(ShapeValue(c, shape))

\* C12: the array with a trailing comma and the map with one have failed,
\* the empty array or the empty map has been returned
C12_Witness ==
    /\ Returned
    /\ entry = "item"
    /\ \/ input = Chars("[1 , ]") /\ ReturnedErrorKind = "UnexpectedToken"
       \/ input = Chars("{1: 0 , }") /\ ReturnedErrorKind = "UnexpectedToken"
       \/ input = Chars("[]") /\ result = Ok(CborArray(<<>>))
       \/ input = Chars("{}") /\ result = Ok(CborMap({}))

\* parse_map has read the colon of a pair and called parse_item for the
\* value, and the next token is a closing brace
EmptyValuePosition ==
    /\ pc = "run"
    /\ Len(stack) >= 2
    /\ Top(stack).fn = "parse_item"
    /\ Top(Pop(stack)).fn = "parse_map"
    /\ Top(Pop(stack)).at = "value"
    /\ LastRead = <<":">>
    /\ Upcoming[1] = "tok"
    /\ TokKind(Upcoming[2]) = "BraceClose"

\* parse_item has returned to parse_map from an empty value position
EmptyValueReturned ==
    /\ pc = "return"
    /\ stack # <<>>
    /\ Top(stack).fn = "parse_map"
    /\ Top(stack).at = "value"
    /\ LastRead = <<"}">>
    /\ IsError(ret, "UnexpectedToken")

\* C13: when the closing brace directly follows the colon of a pair,
\* parse_map returns ExpectedMapKey with the span of that brace, and the
\* error is handed up unchanged to the caller of the entry point:
\* {1: 2, 3:} fails with ExpectedMapKey([9,10)).
C13_ExpectedMapKey ==
    [][/\ EmptyValuePosition => EmptyValueReturned'
       /\ EmptyValueReturned
             => ret' = Err(MkError("ExpectedMapKey", <<>>, lexSpan))
       /\ IsError(ret, "ExpectedMapKey") => (ret' = ret \/ result' = ret)
       /\ (pc' = "done" /\ entry' = "item" /\ input' = Chars("{1: 2, 3:}"))
             => result' = Err(MkError("ExpectedMapKey", <<>>, <<9, 10>>))]_vars

\* C13: {1: 2, 3:} has failed with ExpectedMapKey for its closing brace
C13_Witness ==
    /\ Returned
    /\ entry = "item"
    /\ input = Chars("{1: 2, 3:}")
    /\ result = Err(MkError("ExpectedMapKey", <<>>, <<9, 10>>))

\* parse_item has returned to parse_name_tag
NameTagItemReturned ==
    /\ pc = "return"
    /\ stack # <<>>
    /\ Top(stack).fn = "parse_name_tag"

\* The next token is the closing parenthesis
CloseNext == Upcoming[1] = "tok" /\ TokKind(Upcoming[2]) = "ParenthesisClose"

\* The span kept by the innermost parse_name_tag covers the bytes of its
\* name, and the opening parenthesis follows it
NameSpanExact ==
    /\ Slice(input, Top(stack).span[1], Top(stack).span[2]) = Top(stack).name
    /\ At(input, Top(stack).span[2]) = "("

\* C14: for name(item), an error of the inner item is returned as it is; an
\* item followed by a token other than the closing parenthesis, or by
\* nothing, gives an error other than UnknownTagName; an item followed by
\* the closing parenthesis gives Tagged(tag, item) for a registered name and
\* UnknownTagName(name, span) for any other, the span exactly the bytes of
\* the name without the parenthesis.  UnknownTagName arises nowhere else:
\* foo(1) fails with UnknownTagName("foo", [0,3)), foo(1 with end of input.
C14_NameTag ==
    [][/\ NameTagItemReturned =>
             /\ NameSpanExact
             /\ IsErr(ret) => ret' = ret
             /\ (IsOk(ret) /\ ~CloseNext)
                   => (IsErr(ret') /\ ~IsError(ret', "UnknownTagName"))
             /\ (IsOk(ret) /\ CloseNext) =>
                   ret' = IF \E t \in tags : t[1] = Top(stack).name
                          THEN Ok(CborTagged(Lookup(tags, Top(stack).name)[2], ret[2]))
                          ELSE Err(MkError("UnknownTagName", Top(stack).name,
                                           Top(stack).span))
       /\ (IsError(ret', "UnknownTagName") /\ ~IsError(ret, "UnknownTagName"))
             => (NameTagItemReturned /\ IsOk(ret) /\ CloseNext)
       /\ IsError(ret, "UnknownTagName") => (ret' = ret \/ result' = ret)
       /\ (pc' = "done" /\ entry' = "item" /\ input' = Chars("foo(1)"))
             => result' = Err(MkError("UnknownTagName", Chars("foo"), <<0, 3>>))
       /\ (pc' = "done" /\ entry' = "item" /\ input' = Chars("foo(@)"))
             => result' = Err(MkError("UnrecognizedToken", <<>>, <<0, 4>>))
       /\ (pc' = "done" /\ entry' = "item" /\ input' = Chars("date(1)"))
             => result' = Ok(CborTagged(<<1>>, CborInt(FALSE, <<1>>)))]_vars

\* C14: foo(1) has failed with UnknownTagName for the bytes of "foo", or
\* foo(@) with the error of its inner item
C14_Witness ==
    /\ Returned
    /\ entry = "item"
    /\ \/ /\ input = Chars("foo(1)")
          /\ result = Err(MkError("UnknownTagName", Chars("foo"), <<0, 3>>))
       \/ /\ input = Chars("foo(@)")
          /\ ReturnedErrorKind = "UnrecognizedToken"

\* C15: wherever a known-value name that is not registered stands, the call
\* fails with UnknownKnownValueName(n, span), the span covering the bytes of
\* the name n alone, the single quotes on either side of it left out.
C15_NameSpan ==
    (Returned /\ ReturnedErrorKind = "UnknownKnownValueName") =>
        /\ Slice(input, ErrSpan(result[2])[1], ErrSpan(result[2])[2]) = ErrArg(result[2])
        /\ At(input, ErrSpan(result[2])[1] - 1) = "'"
        /\ At(input, ErrSpan(result[2])[2]) = "'"

\* C15: ['foo'] has failed with UnknownKnownValueName("foo", [1,6)), a span
\* that takes in the two quotes
C15_ArrayElement ==
    /\ Returned
    /\ entry = "item"
    /\ input = Chars("['foo']")
    /\ result = Err(MkError("UnknownKnownValueName", Chars("foo"), <<1, 6>>))

\* C15: 'foo' at top level, as a map key, as a map value and as tagged
\* content has failed with the span of the name alone
C15_ElsewhereExact ==
    /\ Returned
    /\ entry = "item"
    /\ \/ /\ input = Chars("'foo'")
          /\ result = Err(MkError("UnknownKnownValueName", Chars("foo"), <<1, 4>>))
       \/ /\ input = Chars("{'foo': 1}")
          /\ result = Err(MkError("UnknownKnownValueName", Chars("foo"), <<2, 5>>))
       \/ /\ input = Chars("{1: 'foo'}")
          /\ result = Err(MkError("UnknownKnownValueName", Chars("foo"), <<5, 8>>))
       \/ /\ input = Chars("1('foo')")
          /\ result = Err(MkError("UnknownKnownValueName", Chars("foo"), <<3, 6>>))

\* Known-value numbers: small ones, 2^53 + 1 and u64::MAX
KnownValueNumbers == {<<0>>, <<1>>, <<4, 2>>, DecInc(TwoTo53), U64Max}

\* C16: for a number k that fits in 64 bits, 'k' and 40000(k) parse to the
\* same value, the known value of number k; 'isA' parses to the known value
\* of its registered number 1; Unit, '' and '0' parse to what 40000(0)
\* parses to.
C16_KnownValue ==
    (Returned /\ entry = "item") =>
        /\ \A k \in KnownValueNumbers :
              input \in {<<"'">> \o DigitText(k) \o <<"'">>,
                         Chars("40000(") \o DigitText(k) \o <<")">>}
                  => result = Ok(KnownValueCbor(k))
        /\ input = Chars("'isA'") => result = Ok(KnownValueCbor(<<1>>))
        /\ input \in {Chars("Unit"), Chars("''"), Chars("'0'")}
              => result = Ok(KnownValueCbor(<<0>>))

\* C16: 40000(9007199254740993) has parsed to the known value of number
\* 9007199254740992, which is not what '9007199254740993' parses to
C16_Rounded ==
    /\ Returned
    /\ entry = "item"
    /\ input = Chars("40000(9007199254740993)")
    /\ result = Ok(KnownValueCbor(TwoTo53))

\* C16: '9007199254740993' has parsed to the known value of that number
C16_Exact ==
    /\ Returned
    /\ entry = "item"
    /\ input = Chars("'9007199254740993'")
    /\ result = Ok(KnownValueCbor(DecInc(TwoTo53)))

\* C16: the small numbers, the name and the three spellings of the unit
\* have parsed to the known values they name
C16_Small ==
    (Returned /\ entry = "item") =>
        /\ \A k \in {<<0>>, <<1>>, <<4, 2>>} :
              input \in {<<"'">> \o DigitText(k) \o <<"'">>,
                         Chars("40000(") \o DigitText(k) \o <<")">>}
                  => result = Ok(KnownValueCbor(k))
        /\ input = Chars("'isA'") => result = Ok(KnownValueCbor(<<1>>))
        /\ input \in {Chars("Unit"), Chars("''"), Chars("'0'")}
              => result = Ok(KnownValueCbor(<<0>>))

\* The function that reads the next token takes it for an item: the entry
\* point at its start, parse_item, parse_array after its opening bracket or
\* a comma, parse_map where a key stands
ItemExpected ==
    \/ pc = "start"
    \/ /\ pc = "run"
       /\ stack # <<>>
       /\ \/ Top(stack).fn = "parse_item"
          \/ Top(stack).fn = "parse_array" /\ LastRead \in {<<"[">>, <<",">>}
          \/ Top(stack).fn = "parse_map" /\ LastRead \in {<<"{">>, <<",">>}

\* The next token is a UR literal that UR::from_ur_string decodes
UrNext ==
    /\ Upcoming[1] = "tok"
    /\ TokKind(Upcoming[2]) = "UR"
    /\ TokPayload(Upcoming[2])[1] = "Ok"

\* The type of the UR literal that comes next, read off the source: the
\* bytes between "ur:" and the slash
UrTypeSpan ==
    <<Upcoming[3][1] + 3, FindChar(input, Upcoming[3][1] + 3, "/")>>

UrType == Slice(input, UrTypeSpan[1], UrTypeSpan[2])

\* The item the UR literal that comes next carries
UrInner == TokPayload(Upcoming[2])[2][2]

\* The value of the UR literal that comes next, its type registered
UrTagged == CborTagged(Lookup(tags, UrType)[2], UrInner)

\* The entry point or parse_item takes the next token for its item
ItemReturnedNext ==
    pc = "start" \/ (pc = "run" /\ Top(stack).fn = "parse_item")

\* C17: where an item is expected, a UR literal ur:<type>/<bytewords> that
\* decodes yields Tagged(tag, inner) if <type> is a name of the tag
\* registry, and fails with UnknownUrType(type, span) if it is not, the span
\* [start+3, start+3+len(type)) for a literal at start; UnknownUrType arises
\* nowhere else and is handed up unchanged.  ur:date/cyisdadmlasgtapttl
\* parses to 1(1747267200), ur:foo/cyisdadmlasgtapttl fails with
\* UnknownUrType("foo", [3,6)).
C17_Ur ==
    [][/\ (ItemExpected /\ UrNext) =>
             /\ UrTypeSpan[2] = UrTypeSpan[1] + Len(UrType)
             /\ (\E t \in tags : t[1] = UrType) =>
                   /\ ItemReturnedNext => ret' = Ok(UrTagged)
                   /\ (pc = "run" /\ Top(stack).fn = "parse_array")
                         => Top(stack').items = Append(Top(stack).items, UrTagged)
                   /\ ~IsError(ret', "UnknownUrType")
                   /\ ~IsError(result', "UnknownUrType")
             /\ ~(\E t \in tags : t[1] = UrType) =>
                   \/ ret' = Err(MkError("UnknownUrType", UrType, UrTypeSpan))
                   \/ result' = Err(MkError("UnknownUrType", UrType, UrTypeSpan))
       /\ (IsError(ret', "UnknownUrType") /\ ~IsError(ret, "UnknownUrType"))
             => (ItemExpected /\ UrNext)
       /\ IsError(ret, "UnknownUrType") => (ret' = ret \/ result' = ret)
       /\ (pc' = "done" /\ entry' = "item"
             /\ input' = Chars("ur:date/cyisdadmlasgtapttl"))
             => result' = Ok(CborTagged(<<1>>,
                               CborInt(FALSE, <<1, 7, 4, 7, 2, 6, 7, 2, 0, 0>>)))
       /\ (pc' = "done" /\ entry' = "item"
             /\ input' = Chars("ur:foo/cyisdadmlasgtapttl"))
             => result' = Err(MkError("UnknownUrType", Chars("foo"), <<3, 6>>))]_vars

\* C17: the UR of an unregistered type has failed with UnknownUrType for the
\* bytes of the type, at top level or as the second element of an array
C17_Witness ==
    /\ Returned
    /\ entry = "item"
    /\ \/ /\ input = Chars("ur:foo/cyisdadmlasgtapttl")
          /\ result = Err(MkError("UnknownUrType", Chars("foo"), <<3, 6>>))
       \/ /\ input = Chars("[1, ur:foo/cyisdadmlasgtapttl]")
          /\ result = Err(MkError("UnknownUrType", Chars("foo"), <<7, 10>>))

\* C17: the UR of the registered type date has parsed to tag 1 around the
\* item it carries
C17_Tagged ==
    /\ Returned
    /\ entry = "item"
    /\ input = Chars("[ur:date/cyisdadmlasgtapttl]")
    /\ result = Ok(CborArray(<<CborTagged(<<1>>,
                                 CborInt(FALSE, <<1, 7, 4, 7, 2, 6, 7, 2, 0, 0>>))>>))

\* The next token is a string literal
StringNext == Upcoming[1] = "tok" /\ TokKind(Upcoming[2]) = "String"

\* The source characters between the outer quotes of the string literal
\* that comes next
StringBody == Slice(input, Upcoming[3][1] + 1, Upcoming[3][2] - 1)

\* C18: where an item is expected, a string literal the lexer accepts
\* yields the text of the source characters between its outer double
\* quotes, the backslash sequences left as they are written: "She said
\* \"Hi\"" parses to the 15 characters She said \"Hi\", and "1\n2\tT" to
\* the 7 characters 1\n2\tT.
C18_StringVerbatim ==
    [][/\ (ItemExpected /\ StringNext) =>
             /\ At(input, Upcoming[3][1]) = "\""
             /\ At(input, Upcoming[3][2] - 1) = "\""
             /\ ItemReturnedNext => ret' = Ok(CborText(StringBody))
             /\ (pc = "run" /\ Top(stack).fn = "parse_array")
                   => Top(stack').items = Append(Top(stack).items, CborText(StringBody))
             /\ (pc = "run" /\ Top(stack).fn = "parse_map")
                   => \/ IsError(ret', "ExpectedColon")
                      \/ Top(Pop(stack')).key = CborText(StringBody)
       /\ (pc' = "done" /\ entry' = "item" /\ input' = Chars("\"She said \\\"Hi\\\"\""))
             => /\ result' = Ok(CborText(Chars("She said \\\"Hi\\\"")))
                /\ Len(result'[2][2]) = 15
       /\ (pc' = "done" /\ entry' = "item" /\ input' = Chars("\"1\\n2\\tT\""))
             => /\ result' = Ok(CborText(<<"1", "\\", "n", "2", "\\", "t", "T">>))
       /\ (pc' = "done" /\ entry' = "item" /\ input' = Chars("[\"\\u0041\\u00e9\"]"))
             => result' = Ok(CborArray(<<CborText(Chars("\\u0041\\u00e9"))>>))]_vars

\* C18: "She said \"Hi\"" has parsed to the text with its two backslashes
C18_Witness ==
    /\ Returned
    /\ entry = "item"
    /\ input = Chars("\"She said \\\"Hi\\\"\"")
    /\ result = Ok(CborText(Chars("She said \\\"Hi\\\"")))
    /\ \E i \in 1..Len(result[2][2]) : result[2][2][i] = "\\"

\* Dates with the seconds since the epoch of their tag-1 values
DateValues ==
    {<<"2023-01-01", <<1, 6, 7, 2, 5, 3, 1, 2, 0, 0>>>>,
     <<"2023-02-08", <<1, 6, 7, 5, 8, 1, 4, 4, 0, 0>>>>,
     <<"2023-02-08T15:30:45Z", <<1, 6, 7, 5, 8, 7, 0, 2, 4, 5>>>>}

DateCbor(seconds) == CborTagged(<<1>>, CborInt(FALSE, seconds))

\* C19: a source of the shape dddd-dd-dd, with or without a time part, is
\* read as one date literal and parses to the tag-1 value of the date, at
\* top level, as an array element and as a map value; the digits 2023 alone
\* parse to the number 2023.
C19_DateLiteral ==
    (Returned /\ entry = "item") =>
        /\ \A d \in DateValues :
              /\ input = Chars(d[1]) => result = Ok(DateCbor(d[2]))
              /\ input = <<"[">> \o Chars(d[1]) \o <<"]">>
                    => result = Ok(CborArray(<<DateCbor(d[2])>>))
              /\ input = Chars("{1: ") \o Chars(d[1]) \o <<"}">>
                    => result = Ok(CborMap({<<CborInt(FALSE, <<1>>), DateCbor(d[2])>>}))
        /\ input = Chars("2023") => result = Ok(CborInt(FALSE, <<2, 0, 2, 3>>))

\* C19: 2023-01-01 has been read as one date literal of ten bytes, and the
\* call has failed with UnexpectedToken for it, at top level or in an array
C19_DateUnexpected ==
    /\ Returned
    /\ entry = "item"
    /\ \/ input = Chars("2023-01-01") /\ ErrSpan(result[2]) = <<0, 10>>
       \/ input = Chars("[2023-01-01]") /\ ErrSpan(result[2]) = <<1, 11>>
    /\ ReturnedErrorKind = "UnexpectedToken"
    /\ TokKind(ErrArg(result[2])) = "DateLiteral"
    /\ TokPayload(ErrArg(result[2]))[1] = "Ok"

\* C19: 2023 has parsed to the number 2023
C19_Number ==
    /\ Returned
    /\ entry = "item"
    /\ input = Chars("2023")
    /\ result = Ok(CborInt(FALSE, <<2, 0, 2, 3>>))

\* The tokens of src from offset pos on, payloads and all, up to its end or
\* to the first text the lexer does not recognize
RECURSIVE Tokens(_, _)
Tokens(src, pos) ==
    LET nt == NextToken(src, pos) IN
    IF nt[1] = "tok" THEN <<nt[2]>> \o Tokens(src, nt[3][2])
    ELSE <<>>

\* C20: when a source has parsed to c, the same source with whitespace,
\* /../ comments or # comments (each with the line end that closes it) put
\* before every token and after the last one parses to c too; the lexer
\* finds the same tokens in both, so no text of a comment is handed to the
\* parser.
C20_TriviaIgnored ==
    [][/\ (plain' # None /\ plain = None) =>
             /\ Len(input') > Len(input)
             /\ Tokens(input', 0) = Tokens(input, 0)
       /\ (pc' = "done" /\ plain' # None) => result' = plain']_vars

\* C20: "[1, 2]" with a comment before each token and after the last has
\* parsed to the array [1, 2], as it did without them
C20_Witness ==
    /\ Returned
    /\ plain = Ok(CborArray(<<CborInt(FALSE, <<1>>), CborInt(FALSE, <<2>>)>>))
    /\ input \in {Chars("# c\n[# c\n1# c\n,# c\n 2# c\n]# c\n"),
                  Chars("/ 1, 2 /[/ 1, 2 /1/ 1, 2 /, / 1, 2 /2/ 1, 2 /]/ 1, 2 /")}
    /\ result = plain

\* ------------------------------------------------------------------------
\* The compose functions
\* ------------------------------------------------------------------------

ComposeReturned(fn) == pc = "composed" /\ composing.fn = fn

\* What parse_dcbor_item returns for each of the fragments the lists are
\* drawn from
FragmentOutcome(f) ==
    CASE f = Chars("1") -> Ok(CborInt(FALSE, <<1>>))
      [] f = Chars("2") -> Ok(CborInt(FALSE, <<2>>))
      [] f = Chars("") -> Err(MkError("EmptyInput", <<>>, NoSpan))
      [] f = Chars("[1 2") -> Err(MkError("ExpectedComma", <<>>, <<3, 4>>))

\* Every fragment of the list is one of those
Drawn(array) == \A i \in 1..Len(array) : array[i] \in FragmentTexts

\* The indices of the fragments that fail to parse
Failing(array) == {i \in 1..Len(array) : IsErr(FragmentOutcome(array[i]))}

\* The lowest of them
LowestFailing(array) == CHOOSE i \in Failing(array) : \A j \in Failing(array) : i <= j

\* The items of the fragments, in the order of the fragments
ItemsOf(array) == [i \in 1..Len(array) |-> FragmentOutcome(array[i])[2]]

\* What the claim says compose_dcbor_array returns
ComposedArray(array) ==
    IF Failing(array) = {}
    THEN Ok(CborArray(ItemsOf(array)))
    ELSE Err(ParseError(FragmentOutcome(array[LowestFailing(array)])[2]))

\* C21: compose_dcbor_array(f1..fn) succeeds exactly when every fragment
\* parses, and then returns the array of the n items parse_dcbor_item gives
\* for f1..fn, in that order; otherwise it returns the parse error of the
\* failing fragment of lowest index, its span as parse_dcbor_item reported
\* it for that fragment alone.
C21_ComposeArray ==
    /\ (Returned /\ entry = "item" /\ input \in FragmentTexts)
          => result = FragmentOutcome(input)
    /\ (ComposeReturned("compose_dcbor_array") /\ Drawn(composing.array))
          => composing.returned = ComposedArray(composing.array)
    /\ ComposeReturned("compose_dcbor_array")
          => IF IsOk(composing.returned)
             THEN /\ composing.returned[2][1] = "array"
                  /\ Len(composing.returned[2][2]) = Len(composing.array)
             ELSE /\ composing.returned[2] = ParseError(result[2])
                  /\ input = composing.array[composing.i + 1]
                  /\ IsErr(result)

\* ["1", "[1 2", ""] fails with the second fragment's ExpectedComma at
\* bytes 3..4 of that fragment
C21_Witness ==
    /\ ComposeReturned("compose_dcbor_array")
    /\ composing.array = <<Chars("1"), Chars("[1 2"), Chars("")>>
    /\ composing.returned = Err(ParseError(MkError("ExpectedComma", <<>>, <<3, 4>>)))

\* ["2", "1", "2"] gives [2, 1, 2]
C21_Array ==
    /\ ComposeReturned("compose_dcbor_array")
    /\ composing.array = <<Chars("2"), Chars("1"), Chars("2")>>
    /\ composing.returned
         = Ok(CborArray(<<CborInt(FALSE, <<2>>), CborInt(FALSE, <<1>>), CborInt(FALSE, <<2>>)>>))

\* C22: compose_dcbor_map on a list of odd length returns
\* InvalidOddMapLength, whether its fragments would parse or not and with
\* no fragment parsed; on a list of even length it never returns that
\* error.
C22_OddMapLength ==
    ComposeReturned("compose_dcbor_map")
       => /\ composing.returned = Err(InvalidOddMapLength) <=> Len(composing.array) % 2 = 1
          /\ Len(composing.array) % 2 = 1 => composing.i = 0 /\ input = <<>>

\* ["1", "[1 2", ""]: the second and the third fragment would fail to
\* parse, the odd length is what is reported
C22_Witness ==
    /\ ComposeReturned("compose_dcbor_map")
    /\ composing.array = <<Chars("1"), Chars("[1 2"), Chars("")>>
    /\ composing.returned = Err(InvalidOddMapLength)

\* ["[1 2", "1"] has even length and reports the fragment's error
C22_Even ==
    /\ ComposeReturned("compose_dcbor_map")
    /\ composing.array = <<Chars("[1 2"), Chars("1")>>
    /\ composing.returned = Err(ParseError(MkError("ExpectedComma", <<>>, <<3, 4>>)))

\* The pairs of a list of even length whose fragments all parse:
\* <<key, value, index of the pair>>
PairsOf(array) ==
    {<<FragmentOutcome(array[2 * p - 1])[2], FragmentOutcome(array[2 * p])[2], p>>
        : p \in 1..(Len(array) \div 2)}

\* One entry for each key, its value that of the last pair with the key
LastWins(array) ==
    {<<e[1], e[2]>> : e \in {f \in PairsOf(array) :
                               \A g \in PairsOf(array) : g[1] = f[1] => g[3] <= f[3]}}

IntMap(k1, v1, k2, v2) ==
    CborMap({<<CborInt(FALSE, <<k1>>), CborInt(FALSE, <<v1>>)>>,
             <<CborInt(FALSE, <<k2>>), CborInt(FALSE, <<v2>>)>>})

\* C23: compose_dcbor_map has no error of its own for a repeated key: its
\* only errors are InvalidOddMapLength and the parse error of a fragment.
\* Pairs with equal keys give one entry with the value of the later pair
\* (["1", "2", "1", "3"] and ["1", "2", "1.0", "3"] give {1: 3}), and the
\* map depends on the pairs only, not on their order (["3", "4", "1", "2"]
\* and ["1", "2", "3", "4"] both give {1: 2, 3: 4}).
C23_LastWins ==
    ComposeReturned("compose_dcbor_map")
       => /\ IsErr(composing.returned)
               => \/ composing.returned = Err(InvalidOddMapLength)
                  \/ IsErr(result) /\ composing.returned = Err(ParseError(result[2]))
          /\ (Drawn(composing.array) /\ Len(composing.array) % 2 = 0
                 /\ Failing(composing.array) = {})
               => composing.returned = Ok(CborMap(LastWins(composing.array)))
          /\ composing.array \in {<<Chars("1"), Chars("2"), Chars("1"), Chars("3")>>,
                                  <<Chars("1"), Chars("2"), Chars("1.0"), Chars("3")>>}
               => composing.returned = Ok(IntMap(1, 3, 1, 3))
          /\ composing.array \in {<<Chars("3"), Chars("4"), Chars("1"), Chars("2")>>,
                                  <<Chars("1"), Chars("2"), Chars("3"), Chars("4")>>}
               => composing.returned = Ok(IntMap(1, 2, 3, 4))
          /\ composing.array = <<Chars("2"), Chars("1"), Chars("1"), Chars("1"),
                                 Chars("2"), Chars("3")>>
               => composing.returned = Ok(IntMap(1, 1, 2, 3))

\* ["1", "2", "1", "3"] gives {1: 3}
C23_Witness ==
    /\ ComposeReturned("compose_dcbor_map")
    /\ composing.array = <<Chars("1"), Chars("2"), Chars("1"), Chars("3")>>
    /\ composing.returned = Ok(CborMap({<<CborInt(FALSE, <<1>>), CborInt(FALSE, <<3>>)>>}))

\* ["3", "4", "1", "2"] gives {1: 2, 3: 4}
C23_Sorted ==
    /\ ComposeReturned("compose_dcbor_map")
    /\ composing.array = <<Chars("3"), Chars("4"), Chars("1"), Chars("2")>>
    /\ composing.returned = Ok(IntMap(1, 2, 3, 4))

\* ------------------------------------------------------------------------
\* The span of UnrecognizedToken
\* ------------------------------------------------------------------------

\* The byte range of the first region of src from pos on that the lexer
\* matches with no token, NoSpan if there is none; nt is what the lexer
\* finds from pos
RECURSIVE Unrecognized(_, _)
UnrecognizedAt(src, nt) ==
    IF nt[1] = "err" THEN nt[3]
    ELSE IF nt[1] = "eof" THEN NoSpan
    ELSE Unrecognized(src, nt[3][2])

Unrecognized(src, pos) == UnrecognizedAt(src, NextToken(src, pos))

\* The span of the token read before that region, prev if the region is the
\* first thing the lexer finds from pos
RECURSIVE BeforeUnrecognized(_, _, _)
BeforeUnrecognizedAt(src, prev, nt) ==
    IF nt[1] = "tok" THEN BeforeUnrecognized(src, nt[3][2], nt[3]) ELSE prev

BeforeUnrecognized(src, pos, prev) == BeforeUnrecognizedAt(src, prev, NextToken(src, pos))

\* C24: a call that fails with UnrecognizedToken reports the byte range of
\* the region the lexer could not match.
C24_OffendingSpan ==
    (Returned /\ IsError(result, "UnrecognizedToken"))
       => ErrSpan(result[2]) = Unrecognized(input, 0)

\* "@" has failed with UnrecognizedToken and the empty span at offset 0,
\* where the offending byte is at 0..1
C24_EmptySpan ==
    /\ Returned
    /\ entry = "item"
    /\ input = Chars("@")
    /\ Unrecognized(input, 0) = <<0, 1>>
    /\ result = Err(MkError("UnrecognizedToken", <<>>, <<0, 0>>))

\* What the call reports is the span of the token read before the region,
\* and the empty span at offset 0 if no token was read before it
C24_PreviousSpan ==
    (Returned /\ IsError(result, "UnrecognizedToken"))
       => ErrSpan(result[2]) = BeforeUnrecognized(input, 0, LexerNew)

\* "[[@]]" has failed with the span of the second bracket
C24_Bracket ==
    /\ Returned
    /\ input = Chars("[[@]]")
    /\ result = Err(MkError("UnrecognizedToken", <<>>, <<1, 2>>))

\* ------------------------------------------------------------------------
\* The rendering of an error
\* ------------------------------------------------------------------------

\* The span an error is rendered with: its own, [len, len) for
\* UnexpectedEndOfInput and [0, 0) for EmptyInput
RenderedSpan(e, source) ==
    CASE ErrKind(e) = "EmptyInput" -> <<0, 0>>
      [] ErrKind(e) = "UnexpectedEndOfInput" -> <<Len(source), Len(source)>>
      [] OTHER -> ErrSpan(e)

\* The offset of the first byte of the line that holds offset start
LineFirst(source, start) ==
    CHOOSE p \in 0..start :
        /\ p = 0 \/ source[p] = "\n"
        /\ \A q \in (p + 1)..start : source[q] # "\n"

\* The offset past the last byte of the line that begins at p
LineLast(source, p) ==
    CHOOSE q \in p..Len(source) :
        /\ q = Len(source) \/ source[q + 1] = "\n"
        /\ \A r \in (p + 1)..q : source[r] # "\n"

\* The text of the line that begins at p, without its line end
LineText(source, p) ==
    IF LineLast(source, p) < Len(source) /\ LineLast(source, p) > p
       /\ source[LineLast(source, p)] = "\r"
    THEN Slice(source, p, LineLast(source, p) - 1)
    ELSE Slice(source, p, LineLast(source, p))

\* The three lines of the claim for the span [start, end)
ThreeLines(text, source, start, end) ==
    Chars("line ")
    \o UsizeToString(1 + Cardinality({i \in 1..start : source[i] = "\n"}))
    \o Chars(": ") \o text \o Chars("\n")
    \o LineText(source, LineFirst(source, start)) \o Chars("\n")
    \o [i \in 1..(start - LineFirst(source, start)) |-> " "]
    \o [i \in 1..(IF end - start > 1 THEN end - start ELSE 1) |-> "^"]

\* C25: full_message renders "line N: <message>" with N one more than the
\* number of newlines before the start of the span, then the text of the
\* source line that holds the start, then as many spaces as the start is
\* from the first byte of that line followed by max(end - start, 1) carets.
\* UnexpectedEndOfInput is rendered with the span [len, len) and EmptyInput
\* with [0, 0).
C25_FullMessage ==
    message # None
       => /\ IsErr(result)
          /\ message = ThreeLines(Display(result[2]), input,
                                  RenderedSpan(result[2], input)[1],
                                  RenderedSpan(result[2], input)[2])
          /\ Cardinality({i \in 1..Len(message) : message[i] = "\n"}) = 2

\* "[1, 2,\n3, 4," is rendered with line 2, the text of the second line and
\* one caret past its last byte
C25_Witness ==
    /\ input = Chars("[1, 2,\n3, 4,")
    /\ result = Err(UnexpectedEndOfInput)
    /\ message = Chars("line 2: Unexpected end of input\n3, 4,\n     ^")

\* "[1,\r\n 2 3]" is rendered with the line of the second number and a
\* caret below it; " " with the caret of the empty span
C25_Lines ==
    \/ /\ input = Chars("[1,\r\n 2 3]")
       /\ message = Chars("line 2: Expected comma\n 2 3]\n   ^")
    \/ /\ input = Chars(" ")
       /\ message = Chars("line 1: Empty input\n \n^")

\* ------------------------------------------------------------------------
\* Span containment
\* ------------------------------------------------------------------------

\* The span lies within the source of the call
SpanWithin(sp) == sp = NoSpan \/ (0 <= sp[1] /\ sp[1] <= sp[2] /\ sp[2] <= Len(input))

\* So does the span of the error a token carries as its payload
TokenWithin(t) ==
    (TokKind(t) \in ResultKinds /\ TokPayload(t)[1] = "Err")
       => SpanWithin(ErrSpan(TokPayload(t)[2]))

\* So do the span of the error and that of the token it names
ErrorWithin(e) ==
    /\ SpanWithin(ErrSpan(e))
    /\ ErrKind(e) = "UnexpectedToken" => TokenWithin(ErrArg(e))

ResultWithin(r) == IsErr(r) => ErrorWithin(r[2])

\* C26: every span of a call of parse_dcbor_item on s lies within s,
\* 0 <= start <= end <= len(s): the span of the lexer, of the token it
\* yields next and of the error that token carries, the span kept for a
\* tag name without its parenthesis, and the span of every error returned,
\* those cut out of a token's span (tag value, known value, UR type)
\* included.
C26_SpanWithin ==
    pc \in {"start", "run", "return", "done"}
       => /\ SpanWithin(lexSpan)
          /\ SpanWithin(Upcoming[3])
          /\ Upcoming[1] = "tok" => TokenWithin(Upcoming[2])
          /\ ResultWithin(ret)
          /\ ResultWithin(result)
          /\ \A i \in 1..Len(stack) : SpanWithin(stack[i].span)

\* An error with a span cut out of the token's has been returned: the type
\* of a UR, a known-value name without its quotes, or a tag name without its
\* parenthesis
C26_Witness ==
    /\ Returned
    /\ entry = "item"
    /\ \/ result = Err(MkError("UnknownUrType", Chars("foo"), <<3, 6>>))
       \/ result = Err(MkError("UnknownKnownValueName", Chars("foo"), <<1, 4>>))
       \/ result = Err(MkError("UnknownTagName", Chars("foo"), <<0, 3>>))
    /\ ErrSpan(result[2])[2] < Len(input)

\* ------------------------------------------------------------------------
\* The comma state of parse_array and parse_map
\* ------------------------------------------------------------------------

\* awaits_item of parse_array, awaits_key of parse_map
AwaitsElement(frame) ==
    IF frame.fn = "parse_array" THEN frame.awaits_item ELSE frame.awaits_key

\* The bracket that opened the innermost container
OwnOpen == IF Top(stack).fn = "parse_array" THEN <<"[">> ELSE <<"{">>

\* The step ends an iteration of the innermost container's loop and the
\* loop goes on: the same activation stands at the head of its loop again
Iterated ==
    /\ stack # <<>>
    /\ stack' # <<>>
    /\ Len(stack') = Len(stack)
    /\ Top(stack).fn \in {"parse_array", "parse_map"}
    /\ Top(stack').fn = Top(stack).fn
    /\ pc \in {"run", "return"}
    /\ pc' = "run"

\* C27: at the head of the loop of parse_array and of parse_map,
\* awaits_comma and awaits_item (awaits_key) are never both true; they are
\* both false exactly before the first token of the container is read, the
\* opening bracket being the last token read; and after every iteration
\* that does not return exactly one of them is true.
C27_CommaState ==
    /\ [](InContainer
            => /\ ~(Top(stack).awaits_comma /\ AwaitsElement(Top(stack)))
               /\ (~Top(stack).awaits_comma /\ ~AwaitsElement(Top(stack)))
                     <=> LastRead = OwnOpen)
    /\ [][Iterated => Top(stack').awaits_comma # AwaitsElement(Top(stack'))]_vars

\* In "[1, 2]" and "{1: 2, 3: 4}" the loop stands after the comma with
\* awaits_item (awaits_key) alone, having stood after the first element with
\* awaits_comma alone
C27_Witness ==
    /\ InContainer
    /\ LastRead = <<",">>
    /\ Top(stack).items = <<CborInt(FALSE, <<1>>)>>
          \/ Top(stack).map = {<<CborInt(FALSE, <<1>>), CborInt(FALSE, <<2>>)>>}
    /\ AwaitsElement(Top(stack))
    /\ ~Top(stack).awaits_comma

\* ------------------------------------------------------------------------
\* The registries
\* ------------------------------------------------------------------------

\* C28: no step of parse_dcbor_item, parse_dcbor_item_partial,
\* compose_dcbor_array or compose_dcbor_map changes the tag registry or the
\* known-value registry; a name that is not registered gives an error and
\* stays unregistered.
C28_RegistriesKept ==
    /\ [][GLOBAL_TAGS' = GLOBAL_TAGS /\ KNOWN_VALUES' = KNOWN_VALUES]_vars
    /\ []((Returned /\ (IsError(result, "UnknownTagName") \/ IsError(result, "UnknownUrType")))
            => ~(\E t \in GLOBAL_TAGS : t[1] = ErrArg(result[2])))
    /\ []((Returned /\ IsError(result, "UnknownKnownValueName"))
            => ~(\E k \in KNOWN_VALUES : k[1] = ErrArg(result[2])))

\* foo(1) has failed with UnknownTagName, 'foo' with UnknownKnownValueName
\* or ur:foo/.. with UnknownUrType, and the registries hold what they held
C28_Witness ==
    /\ Returned
    /\ \/ IsError(result, "UnknownTagName")
       \/ IsError(result, "UnknownKnownValueName")
       \/ IsError(result, "UnknownUrType")
    /\ ErrArg(result[2]) = Chars("foo")
    /\ GLOBAL_TAGS = RegisteredTags
    /\ KNOWN_VALUES = RegisteredKnownValues

\* ------------------------------------------------------------------------
\* Termination
\* ------------------------------------------------------------------------

\* A call of the parser is running
Running == pc \in {"start", "run", "return"}

\* The bytes the lexer has not read
Unread == Len(input) - lexSpan[2]

\* The step reads a token, or reads nothing more and returns from the
\* innermost function, or reads nothing more and takes what a callee
\* returned into the loop that called it
Advances ==
    \/ Unread' < Unread
    \/ Unread' = Unread /\ Len(stack') < Len(stack)
    \/ Unread' = Unread /\ Len(stack') = Len(stack) /\ pc = "return" /\ pc' = "run"

\* C29: every call of the parser on a finite source returns after finitely
\* many steps: each step of a running call reads at least one token, or
\* returns from a function, or hands a returned item to the loop that
\* called for it, so the unread bytes and the depth of the calls bound the
\* steps; and every call that is made does return.
C29_Terminates ==
    /\ [][Running => (pc' = "done" \/ (Running' /\ Advances))]_vars
    /\ [](Running => <>Returned)

\* The call on {1: 2, "a": [3], 4: 5(6)} has returned its map with every
\* byte read
C29_Witness ==
    /\ Returned
    /\ input = Chars("{1: 2, \"a\": [3], 4: 5(6)}")
    /\ IsOk(result)
    /\ lexSpan[2] = Len(input)

\* ------------------------------------------------------------------------
\* Where ExpectedMapKey comes from
\* ------------------------------------------------------------------------

\* The kind of the last token of src that ends at or before offset target,
\* prev if there is none from pos on; nt is what the lexer finds from pos
RECURSIVE KindBefore(_, _, _, _)
KindBeforeAt(src, target, prev, nt) ==
    IF nt[1] # "tok" \/ nt[3][1] >= target THEN prev
    ELSE KindBefore(src, nt[3][2], target, TokKind(nt[2]))

KindBefore(src, pos, target, prev) == KindBeforeAt(src, target, prev, NextToken(src, pos))

\* A function has just returned ExpectedMapKey of its own making
ExpectedMapKeyMade == IsError(ret', "ExpectedMapKey") /\ ~IsError(ret, "ExpectedMapKey")

\* parse_item has returned UnexpectedToken for a closing brace to the
\* parse_map that called it for the value of a pair
BraceRefusedInValue ==
    /\ pc = "return"
    /\ stack # <<>>
    /\ Top(stack).fn = "parse_map"
    /\ Top(stack).at = "value"
    /\ IsError(ret, "UnexpectedToken")
    /\ TokKind(ErrArg(ret[2])) = "BraceClose"

\* C30: a call fails with ExpectedMapKey only for a closing brace that
\* directly follows the colon of a pair; {1: [} and {1: 1(} fail with
\* UnexpectedToken, the error of the array and of the tagged value.
C30_OnlyAfterColon ==
    Returned
       => /\ IsError(result, "ExpectedMapKey")
                => KindBefore(input, 0, ErrSpan(result[2])[1], "none") = "Colon"
          /\ input \in {Chars("{1: [}"), Chars("{1: 1(}")}
                => IsError(result, "UnexpectedToken")

\* C30, as the code has it: ExpectedMapKey is made by parse_map alone, and
\* exactly when the parse_item it called for the value of a pair returns
\* UnexpectedToken for a closing brace, with the span of that brace.  The
\* brace may follow the colon directly, or stand deeper inside the value
\* where an array or a tagged value expected an item and handed the error
\* up: {1: [} and {1: 1(} fail with ExpectedMapKey too.
C30_BraceInValue ==
    [][/\ ExpectedMapKeyMade <=> BraceRefusedInValue
       /\ BraceRefusedInValue
             => /\ ret' = Err(MkError("ExpectedMapKey", <<>>, ErrSpan(ret[2])))
                /\ Slice(input, ErrSpan(ret[2])[1], ErrSpan(ret[2])[2]) = <<"}">>
       /\ (pc = "return" /\ pc' = "done" /\ IsError(result', "ExpectedMapKey"))
             => /\ IsError(ret, "ExpectedMapKey")
                /\ KindBefore(input, 0, ErrSpan(result'[2])[1], "none")
                      \in {"Colon", "BracketOpen", "TagValue", "TagName"}
       /\ (pc' = "done" /\ entry' = "item" /\ input' = Chars("{1: [}"))
             => result' = Err(MkError("ExpectedMapKey", <<>>, <<5, 6>>))
       /\ (pc' = "done" /\ entry' = "item" /\ input' = Chars("{1: 1(}"))
             => result' = Err(MkError("ExpectedMapKey", <<>>, <<6, 7>>))]_vars

\* {1: [} has failed with ExpectedMapKey for the brace that follows the
\* bracket
C30_Witness ==
    /\ Returned
    /\ entry = "item"
    /\ input = Chars("{1: [}")
    /\ result = Err(MkError("ExpectedMapKey", <<>>, <<5, 6>>))

====
